---- MODULE Spec2Model ----
(***************************************************************************)
(* The liv-hooks plugin: one hook process per proposed tool use.  A hook   *)
(* reads one event, runs its handler and answers with no opinion, allow,   *)
(* deny (with a reason) or an advisory (additional context).               *)
(*                                                                         *)
(* Texts (paths, commands, file contents, delegate replies) are sequences  *)
(* of one-character strings, and the regular expressions of the hooks are  *)
(* matched by a small regular-expression matcher written out below.        *)
(***************************************************************************)
EXTENDS Integers, Sequences, FiniteSets, TLC

VARIABLES
    hook,        \* the hook whose main.py was started
    event,       \* the ToolUseEvent read from standard input
    shape,       \* how the event's content was put together (input bookkeeping)
    pc,          \* "start", "query" / "e2e_query" (waiting on the delegate), "done",
                 \* "failed" (the handler raised), "exited"
    response,    \* the handler's return value
    scanned,     \* whether the handler looked into the file content
    agentCalls,  \* requests issued to the External Reasoning Delegate
    agentError,  \* whether the delegate call raised
    stream,      \* the delegate's messages consumed so far
    exitCode,    \* the process exit code, -1 while running
    templateExists,  \* whether E2EPathValidator/prompt.md is installed
    templateLoaded,  \* whether the prompt template was read
    handled,     \* the handlers HookHandler.run has invoked, in order
    stdout,      \* the JSON objects written to standard output, in order
    request,     \* the options of the request issued to the delegate, None before it
    logger,      \* whether the hook's logger has a log file to write to
    log,         \* the log file the hook processes share: its lines, in order
    template,    \* E2EPathValidator._template: the cached prompt template, None before
    promptFile,  \* the text of E2EPathValidator/prompt.md on disk, None when there is no file
    reads,       \* how often prompt.md was read
    prompts,     \* the prompts _validate_with_agent has built, in order
    hookName,    \* run_hook's hook_name
    proc,        \* the finished hook process run_hook spawned, None when none was
    spawned,     \* how many processes run_hook spawned
    outcome,     \* what run_hook returned or raised
    verdict      \* the assertion helper called on the result and whether it passed

\* one hook process
hookVars == <<hook, event, shape, pc, response, scanned, agentCalls, agentError, stream, exitCode,
              templateExists, templateLoaded, handled, stdout, request, logger, log>>

\* one E2EPathValidator object and its prompt file
templateVars == <<template, promptFile, reads, prompts>>

\* one call of the test harness
harnessVars == <<hookName, proc, spawned, outcome, verdict>>

vars == <<hookVars, templateVars, harnessVars>>

(***************************************************************************)
(* Python values                                                           *)
(***************************************************************************)
\* Python's None: a value that is no text.
None == [none |-> TRUE]

\* Python truthiness of an optional text: None and "" are falsy.
Truthy(x) == x # None /\ x # <<>>

\* `x or ""`
OrEmpty(x) == IF Truthy(x) THEN x ELSE <<>>

(***************************************************************************)
(* Texts                                                                   *)
(***************************************************************************)
UpperSeq == <<"A","B","C","D","E","F","G","H","I","J","K","L","M","N","O","P","Q","R","S","T","U","V","W","X","Y","Z">>
LowerSeq == <<"a","b","c","d","e","f","g","h","i","j","k","l","m","n","o","p","q","r","s","t","u","v","w","x","y","z">>
DigitSeq == <<"0","1","2","3","4","5","6","7","8","9">>

UpperChars == {UpperSeq[k] : k \in 1..Len(UpperSeq)}
LowerChars == {LowerSeq[k] : k \in 1..Len(LowerSeq)}
DigitChars == {DigitSeq[k] : k \in 1..Len(DigitSeq)}

\* \w and \s of Python's re on the ASCII range
WordChars == UpperChars \cup LowerChars \cup DigitChars \cup {"_"}
SpaceChars == {" ", "\t", "\n", "\r", "\f"}

LowerMap == [c \in UpperChars |-> LowerSeq[CHOOSE k \in 1..Len(UpperSeq) : UpperSeq[k] = c]]

\* str.lower() on one character
LowerChar(c) == IF c \in UpperChars THEN LowerMap[c] ELSE c

\* str.lower()
Lower(s) == [k \in 1..Len(s) |-> LowerChar(s[k])]

\* str.upper() on one character
UpperChar(c) == IF c \in LowerChars THEN UpperSeq[CHOOSE k \in 1..Len(LowerSeq) : LowerSeq[k] = c] ELSE c

\* str.upper()
Upper(s) == [k \in 1..Len(s) |-> UpperChar(s[k])]

\* s[i:i+Len(t)] == t  (i counted from 1)
StartsAt(s, t, i) ==
    /\ i >= 1
    /\ i + Len(t) - 1 <= Len(s)
    /\ \A k \in 1..Len(t) : s[i + k - 1] = t[k]

\* `t in s`
StrContains(s, t) == \E i \in 1..(Len(s) + 1) : StartsAt(s, t, i)

\* s.startswith(t)
StartsWith(s, t) == StartsAt(s, t, 1)

\* s.endswith(t)
EndsWith(s, t) == Len(t) <= Len(s) /\ StartsAt(s, t, Len(s) - Len(t) + 1)

\* s.replace(a, b) for single characters a and b
ReplaceChar(s, a, b) == [k \in 1..Len(s) |-> IF s[k] = a THEN b ELSE s[k]]

\* s.split(c)[-1]: the text after the last c, or all of s
LastSegment(s, c) ==
    LET cuts == {k \in 1..Len(s) : s[k] = c}
        last == IF cuts = {} THEN 0 ELSE CHOOSE k \in cuts : \A j \in cuts : j <= k
    IN  SubSeq(s, last + 1, Len(s))

\* s.strip()
Strip(s) ==
    LET keep == {k \in 1..Len(s) : s[k] \notin SpaceChars}
    IN  IF keep = {} THEN <<>>
        ELSE SubSeq(s, CHOOSE k \in keep : \A j \in keep : k <= j,
                       CHOOSE k \in keep : \A j \in keep : j <= k)

RECURSIVE Flatten(_)
\* the concatenation of a sequence of texts
Flatten(ss) == IF ss = <<>> THEN <<>> ELSE Head(ss) \o Flatten(Tail(ss))

RECURSIVE Join(_, _)
\* sep.join(ss)
Join(sep, ss) ==
    IF ss = <<>> THEN <<>>
    ELSE IF Len(ss) = 1 THEN Head(ss)
    ELSE Head(ss) \o sep \o Join(sep, Tail(ss))

(***************************************************************************)
(* Regular expressions (Python's re).  A pattern is a tree; Ends gives     *)
(* every position at which a match that starts at position i can end, so   *)
(* re.search succeeds exactly when some start has a non-empty set of ends. *)
(***************************************************************************)
RSet(S) == [t |-> "set", s |-> S]                 \* [abc], \w, \s, one literal
RNot(S) == [t |-> "nset", s |-> S]                \* [^abc]
RDot == [t |-> "dot"]                             \* .  (no DOTALL: not a newline)
RAny == [t |-> "nset", s |-> {}]                  \* .  under DOTALL
RCat(rs) == [t |-> "cat", rs |-> rs]              \* r1 r2 ...
RStar(r) == [t |-> "star", r |-> r]               \* r*
RPlus(r) == [t |-> "cat", rs |-> <<r, [t |-> "star", r |-> r]>>]   \* r+
ROpt(r) == [t |-> "opt", r |-> r]                 \* r?
RAlt(rs) == [t |-> "alt", rs |-> rs]              \* r1|r2
RLook(r) == [t |-> "look", r |-> r]               \* (?=r)
RWordB == [t |-> "wordb"]                         \* \b
REol == [t |-> "eol"]                             \* $
RStr(s) == [t |-> "cat", rs |-> [k \in 1..Len(s) |-> [t |-> "set", s |-> {s[k]}]]]  \* a literal text

\* a character against a class, under re.IGNORECASE when ic
InClass(c, S, ic) ==
    IF ic THEN \E d \in S : LowerChar(d) = LowerChar(c) ELSE c \in S

IsWordAt(s, i) == i >= 1 /\ i <= Len(s) /\ s[i] \in WordChars

RECURSIVE Ends(_, _, _, _)
RECURSIVE CatEnds(_, _, _, _, _)
RECURSIVE StarEnds(_, _, _, _, _)

\* whether the one-character pattern r takes the character at position k
TakesChar(r, s, k, ic) ==
    CASE r.t = "set" -> InClass(s[k], r.s, ic)
      [] r.t = "nset" -> ~InClass(s[k], r.s, ic)
      [] r.t = "dot" -> s[k] # "\n"

\* zero or more of a one-character pattern: every position up to the first
\* character it does not take
RunEnds(r, s, i, ic) ==
    LET stops == {k \in i..Len(s) : ~TakesChar(r, s, k, ic)}
    IN  i..(IF stops = {} THEN Len(s) + 1 ELSE CHOOSE k \in stops : \A j \in stops : k <= j)

Ends(r, s, i, ic) ==
    CASE r.t = "set" ->
            IF i <= Len(s) /\ InClass(s[i], r.s, ic) THEN {i + 1} ELSE {}
      [] r.t = "nset" ->
            IF i <= Len(s) /\ ~InClass(s[i], r.s, ic) THEN {i + 1} ELSE {}
      [] r.t = "dot" ->
            IF i <= Len(s) /\ s[i] # "\n" THEN {i + 1} ELSE {}
      [] r.t = "cat" -> CatEnds(r.rs, 1, s, {i}, ic)
      [] r.t = "alt" -> UNION {Ends(r.rs[k], s, i, ic) : k \in 1..Len(r.rs)}
      [] r.t = "opt" -> {i} \cup Ends(r.r, s, i, ic)
      [] r.t = "star" ->
            IF r.r.t \in {"set", "nset", "dot"} THEN RunEnds(r.r, s, i, ic)
            ELSE StarEnds(r.r, s, {i}, {i}, ic)
      [] r.t = "look" -> IF Ends(r.r, s, i, ic) # {} THEN {i} ELSE {}
      [] r.t = "wordb" -> IF IsWordAt(s, i - 1) # IsWordAt(s, i) THEN {i} ELSE {}
      [] r.t = "eol" ->
            IF i = Len(s) + 1 \/ (i = Len(s) /\ s[i] = "\n") THEN {i} ELSE {}

\* the parts rs[k..] in turn, from every position of `from`
CatEnds(rs, k, s, from, ic) ==
    IF k > Len(rs) \/ from = {} THEN from
    ELSE CatEnds(rs, k + 1, s, UNION {Ends(rs[k], s, j, ic) : j \in from}, ic)

\* zero or more r: `seen` are the ends found, `frontier` those not yet extended
StarEnds(r, s, seen, frontier, ic) ==
    LET more == UNION {Ends(r, s, j, ic) : j \in frontier} \ seen
    IN  IF more = {} THEN seen ELSE StarEnds(r, s, seen \cup more, more, ic)

\* the starts of all matches of r in s
MatchStarts(r, s, ic) == {i \in 1..(Len(s) + 1) : Ends(r, s, i, ic) # {}}

\* bool(re.search(r, s))
Search(r, s, ic) == MatchStarts(r, s, ic) # {}

Min(S) == CHOOSE x \in S : \A y \in S : x <= y
Max(S) == CHOOSE x \in S : \A y \in S : y <= x

RSpace == RSet(SpaceChars)             \* \s
RWord == RSet(WordChars)               \* \w

(***************************************************************************)
(* Hook Runtime Contract (the claude_hook_utils package, used by every     *)
(* hook; it is not part of the repository's sources).                      *)
(***************************************************************************)
\* the JSON value null as an event carries it; json.load makes it None
JsonNull == <<"null">>

\* tool_input.get(key)
Get(ti, key) == IF key \in DOMAIN ti /\ ti[key] # JsonNull THEN ti[key] ELSE None

\* input.file_path, input.content
FilePath(ev) == Get(ev.tool_input, "file_path")
Content(ev) == Get(ev.tool_input, "content")

\* what a handler that raises leaves in place of a return value
Raised == [kind |-> "raise"]

\* the decisions a handler returns next to None (no opinion)
Allow == [kind |-> "allow"]
Deny(reason) == [kind |-> "deny", reason |-> reason]
WithMessage(message) == [kind |-> "context", context |-> message]

\* the segments of s between the separators c
RECURSIVE SplitBy(_, _)
SplitBy(s, c) ==
    LET cuts == {k \in 1..Len(s) : s[k] = c}
    IN  IF cuts = {} THEN <<s>>
        ELSE <<SubSeq(s, 1, Min(cuts) - 1)>> \o SplitBy(SubSeq(s, Min(cuts) + 1, Len(s)), c)

\* one path segment against one glob segment: * stands for any run of characters
RECURSIVE SegmentMatches(_, _)
SegmentMatches(seg, pat) ==
    IF pat = <<>> THEN seg = <<>>
    ELSE IF Head(pat) = "*"
         THEN \E k \in 0..Len(seg) : SegmentMatches(SubSeq(seg, k + 1, Len(seg)), Tail(pat))
         ELSE seg # <<>> /\ Head(seg) = Head(pat) /\ SegmentMatches(Tail(seg), Tail(pat))

\* path segments against glob segments: ** stands for zero or more whole segments
RECURSIVE GlobMatches(_, _)
GlobMatches(segs, pats) ==
    IF pats = <<>> THEN segs = <<>>
    ELSE IF Head(pats) = <<"*","*">>
         THEN \/ GlobMatches(segs, Tail(pats))
              \/ segs # <<>> /\ GlobMatches(Tail(segs), pats)
         ELSE /\ segs # <<>>
              /\ SegmentMatches(Head(segs), Head(pats))
              /\ GlobMatches(Tail(segs), Tail(pats))

\* input.file_path_matches(glob)
FilePathMatches(ev, glob) ==
    /\ Truthy(FilePath(ev))
    /\ GlobMatches(SplitBy(FilePath(ev), "/"), SplitBy(glob, "/"))

(***************************************************************************)
(* ControllerStructureValidator                                            *)
(***************************************************************************)
\* GUIDANCE_MESSAGE, its first sentence (examples and rationale follow it)
CSV_GUIDANCE_MESSAGE == <<"C","o","n","t","r","o","l","l","e","r","s"," ","s","h","o","u","l","d"," ","b","e"," ","o","r","g","a","n","i","z","e","d"," ","i","n"," ","n","e","s","t","e","d"," ","d","o","m","a","i","n"," ","f","o","l","d","e","r","s",","," ","n","o","t"," ","p","l","a","c","e","d"," ","d","i","r","e","c","t","l","y"," ","i","n"," ","a","p","p","/","H","t","t","p","/","C","o","n","t","r","o","l","l","e","r","s","/",".">>

CSV_DENY_PREFIX == <<"D","o"," ","n","o","t"," ","p","l","a","c","e"," ","c","o","n","t","r","o","l","l","e","r","s"," ","d","i","r","e","c","t","l","y"," ","i","n"," ","a","p","p","/","H","t","t","p","/","C","o","n","t","r","o","l","l","e","r","s","/","."," ">>

\* r"app/Http/Controllers/[^/]+\.php$"
FlatControllerPattern ==
    RCat(<<RStr(<<"a","p","p","/","H","t","t","p","/","C","o","n","t","r","o","l","l","e","r","s","/">>), RPlus(RNot({"/"})), RStr(<<".","p","h","p">>), REol>>)

\* variant: the separators are not normalized
IsFlatController_NoNormalize(file_path) ==
    LET filename == LastSegment(file_path, "/")
    IN  /\ Search(FlatControllerPattern, file_path, FALSE)
        /\ \/ StrContains(filename, <<"C","o","n","t","r","o","l","l","e","r",".","p","h","p">>)
           \/ EndsWith(filename, <<"C","o","n","t","r","o","l","l","e","r",".","p","h","p">>)

IsFlatController(file_path) ==
    LET normalized == ReplaceChar(file_path, "\\", "/")
        filename == LastSegment(normalized, "/")
    IN  /\ Search(FlatControllerPattern, normalized, FALSE)
        /\ \/ StrContains(filename, <<"C","o","n","t","r","o","l","l","e","r",".","p","h","p">>)
           \/ EndsWith(filename, <<"C","o","n","t","r","o","l","l","e","r",".","p","h","p">>)

\* variant: a Write without a path is turned down
CSV_CheckWritePath_RequiresPath(ev) ==
    LET file_path == OrEmpty(FilePath(ev))
    IN  IF file_path = <<>> \/ IsFlatController(file_path)
        THEN Deny(CSV_DENY_PREFIX \o CSV_GUIDANCE_MESSAGE)
        ELSE None

CSV_CheckWritePath(ev) ==
    LET file_path == OrEmpty(FilePath(ev))
    IN  IF IsFlatController(file_path)
        THEN Deny(CSV_DENY_PREFIX \o CSV_GUIDANCE_MESSAGE)
        ELSE None

\* variant: an Edit is checked like a Write
CSV_CheckEditPath_AsWrite(ev) == CSV_CheckWritePath(ev)

CSV_CheckEditPath(ev) == None

CSV_PreToolUseResult(ev) ==
    IF ev.tool_name = "Write" THEN CSV_CheckWritePath(ev)
    ELSE IF ev.tool_name = "Edit" THEN CSV_CheckEditPath(ev)
    ELSE None

(***************************************************************************)
(* FormRequestBlocker                                                      *)
(***************************************************************************)
\* GUIDANCE_MESSAGE, its first sentence (the Data class recipe follows it)
FRB_GUIDANCE_MESSAGE == <<"T","h","i","s"," ","p","r","o","j","e","c","t"," ","u","s","e","s"," ","D","a","t","a","C","l","a","s","s","e","s"," ","(","s","p","a","t","i","e","/","l","a","r","a","v","e","l","-","d","a","t","a",")"," ","i","n","s","t","e","a","d"," ","o","f"," ","F","o","r","m","R","e","q","u","e","s","t","s"," ","f","o","r"," ","v","a","l","i","d","a","t","i","o","n",".">>

FRB_BASH_PREFIX == <<"D","o"," ","n","o","t"," ","u","s","e"," ","'","a","r","t","i","s","a","n"," ","m","a","k","e",":","r","e","q","u","e","s","t","'","."," ">>
FRB_PATH_PREFIX == <<"D","o"," ","n","o","t"," ","c","r","e","a","t","e"," ","f","i","l","e","s"," ","i","n"," ","H","t","t","p","/","R","e","q","u","e","s","t","s","/","."," ">>
FRB_EXTENDS_PREFIX == <<"D","o"," ","n","o","t"," ","e","x","t","e","n","d"," ","F","o","r","m","R","e","q","u","e","s","t","."," ">>
FRB_IMPORT_PREFIX == <<"D","o"," ","n","o","t"," ","u","s","e"," ","I","l","l","u","m","i","n","a","t","e"," ","F","o","r","m","R","e","q","u","e","s","t","."," ">>

\* r"artisan\s+make:request", re.IGNORECASE
ArtisanMakeRequestPattern == RCat(<<RStr(<<"a","r","t","i","s","a","n">>), RPlus(RSpace), RStr(<<"m","a","k","e",":","r","e","q","u","e","s","t">>)>>)

\* r"extends\s+FormRequest"
ExtendsFormRequestPattern == RCat(<<RStr(<<"e","x","t","e","n","d","s">>), RPlus(RSpace), RStr(<<"F","o","r","m","R","e","q","u","e","s","t">>)>>)

\* r"use\s+Illuminate\\.*\\FormRequest"
UseIlluminatePattern ==
    RCat(<<RStr(<<"u","s","e">>), RPlus(RSpace), RStr(<<"I","l","l","u","m","i","n","a","t","e","\\">>), RStar(RDot), RStr(<<"\\","F","o","r","m","R","e","q","u","e","s","t">>)>>)

\* variant: the command is matched without re.IGNORECASE
FRB_CheckBashCommand_CaseSensitive(ev) ==
    LET command == IF "command" \in DOMAIN ev.tool_input THEN ev.tool_input["command"] ELSE <<>>
    IN  IF command = JsonNull THEN Raised
        ELSE IF Search(ArtisanMakeRequestPattern, command, FALSE)
        THEN Deny(FRB_BASH_PREFIX \o FRB_GUIDANCE_MESSAGE)
        ELSE None

FRB_CheckBashCommand(ev) ==
    LET command == IF "command" \in DOMAIN ev.tool_input THEN ev.tool_input["command"] ELSE <<>>
    IN  IF command = JsonNull THEN Raised
        ELSE IF Search(ArtisanMakeRequestPattern, command, TRUE)
        THEN Deny(FRB_BASH_PREFIX \o FRB_GUIDANCE_MESSAGE)
        ELSE None

\* variant: the import check is left out
FRB_CheckWriteContent_NoImport(ev) ==
    LET content == OrEmpty(Content(ev))
    IN  IF FilePathMatches(ev, <<"*","*","/","H","t","t","p","/","R","e","q","u","e","s","t","s","/","*","*","/","*",".","p","h","p">>)
        THEN Deny(FRB_PATH_PREFIX \o FRB_GUIDANCE_MESSAGE)
        ELSE IF Search(ExtendsFormRequestPattern, content, FALSE)
        THEN Deny(FRB_EXTENDS_PREFIX \o FRB_GUIDANCE_MESSAGE)
        ELSE None

\* variant: the content checks come before the path check
FRB_CheckWriteContent_ContentFirst(ev) ==
    LET content == OrEmpty(Content(ev))
    IN  IF Search(UseIlluminatePattern, content, FALSE)
        THEN Deny(FRB_IMPORT_PREFIX \o FRB_GUIDANCE_MESSAGE)
        ELSE IF Search(ExtendsFormRequestPattern, content, FALSE)
        THEN Deny(FRB_EXTENDS_PREFIX \o FRB_GUIDANCE_MESSAGE)
        ELSE IF FilePathMatches(ev, <<"*","*","/","H","t","t","p","/","R","e","q","u","e","s","t","s","/","*","*","/","*",".","p","h","p">>)
        THEN Deny(FRB_PATH_PREFIX \o FRB_GUIDANCE_MESSAGE)
        ELSE None

FRB_CheckWriteContent(ev) ==
    LET content == OrEmpty(Content(ev))
    IN  IF FilePathMatches(ev, <<"*","*","/","H","t","t","p","/","R","e","q","u","e","s","t","s","/","*","*","/","*",".","p","h","p">>)
        THEN Deny(FRB_PATH_PREFIX \o FRB_GUIDANCE_MESSAGE)
        ELSE IF Search(ExtendsFormRequestPattern, content, FALSE)
        THEN Deny(FRB_EXTENDS_PREFIX \o FRB_GUIDANCE_MESSAGE)
        ELSE IF Search(UseIlluminatePattern, content, FALSE)
        THEN Deny(FRB_IMPORT_PREFIX \o FRB_GUIDANCE_MESSAGE)
        ELSE None

FRB_PreToolUseResult(ev) ==
    IF ev.tool_name = "Bash" THEN FRB_CheckBashCommand(ev)
    ELSE IF ev.tool_name = "Write" THEN FRB_CheckWriteContent(ev)
    ELSE None

(***************************************************************************)
(* ControllerServiceLayerReminder                                          *)
(***************************************************************************)
\* REMINDER_MESSAGE, its first sentence (the rationale follows it)
REMINDER_MESSAGE == <<"T","h","e"," ","c","o","n","t","r","o","l","l","e","r"," ","m","e","t","h","o","d"," ","c","o","n","t","a","i","n","s"," ","d","i","r","e","c","t"," ","E","l","o","q","u","e","n","t"," ","m","o","d","e","l"," ","m","u","t","a","t","i","o","n","s"," ","(","s","a","v","e","/","u","p","d","a","t","e","/","d","e","l","e","t","e","/","c","r","e","a","t","e",")",".">>

INSTANCE_MUTATIONS == <<<<"s","a","v","e">>, <<"u","p","d","a","t","e">>, <<"d","e","l","e","t","e">>, <<"f","o","r","c","e","D","e","l","e","t","e">>>>
STATIC_MUTATIONS == <<<<"c","r","e","a","t","e">>, <<"u","p","d","a","t","e","O","r","C","r","e","a","t","e">>, <<"f","i","r","s","t","O","r","C","r","e","a","t","e">>, <<"d","e","s","t","r","o","y">>>>
MUTATION_METHODS == <<<<"s","t","o","r","e">>, <<"u","p","d","a","t","e">>, <<"d","e","s","t","r","o","y">>>>

\* r'\$\w+->save\s*\(' and its like
InstanceMutationPattern(call) ==
    RCat(<<RStr(<<"$">>), RPlus(RWord), RStr(<<"-",">">>), RStr(call), RStar(RSpace), RStr(<<"(">>)>>)

\* r'\b[A-Z]\w+::create\s*\(' and its like
StaticMutationPattern(call) ==
    RCat(<<RWordB, RSet(UpperChars), RPlus(RWord), RStr(<<":",":">>), RStr(call), RStar(RSpace), RStr(<<"(">>)>>)

\* rf'public\s+function\s+{method_name}\s*\([^)]*\)\s*(?::\s*[\\?\w]+)?\s*\{{'
MethodStartPattern(method_name) ==
    RCat(<<RStr(<<"p","u","b","l","i","c">>), RPlus(RSpace), RStr(<<"f","u","n","c","t","i","o","n">>), RPlus(RSpace), RStr(method_name),
           RStar(RSpace), RStr(<<"(">>), RStar(RNot({")"})), RStr(<<")">>), RStar(RSpace),
           ROpt(RCat(<<RStr(<<":">>), RStar(RSpace), RPlus(RSet(WordChars \cup {"\\", "?"}))>>)),
           RStar(RSpace), RStr(<<"{">>)>>)

IsControllerFile(file_path) ==
    IF ~Truthy(file_path) THEN FALSE
    ELSE StrContains(file_path, <<"C","o","n","t","r","o","l","l","e","r","s","/">>) /\ EndsWith(file_path, <<".","p","h","p">>)

\* variant: the path is not lower-cased
IsTestFile_CaseSensitive(file_path) ==
    IF ~Truthy(file_path) THEN FALSE
    ELSE StrContains(file_path, <<"/","t","e","s","t","s","/">>) \/ StartsWith(file_path, <<"t","e","s","t","s","/">>)

IsTestFile(file_path) ==
    IF ~Truthy(file_path) THEN FALSE
    ELSE StrContains(Lower(file_path), <<"/","t","e","s","t","s","/">>) \/ StartsWith(Lower(file_path), <<"t","e","s","t","s","/">>)

\* the while loop of _extract_method_body: [pos, brace_count] when it stops
RECURSIVE BraceScan(_, _, _)
BraceScan(content, pos, brace_count) ==
    IF pos <= Len(content) /\ brace_count > 0
    THEN BraceScan(content, pos + 1,
                   IF content[pos] = "{" THEN brace_count + 1
                   ELSE IF content[pos] = "}" THEN brace_count - 1
                   ELSE brace_count)
    ELSE [pos |-> pos, brace_count |-> brace_count]

\* variant: a body that never closes runs to the end of the content
ExtractMethodBody_ToEnd(content, method_name) ==
    LET pattern == MethodStartPattern(method_name)
        starts == MatchStarts(pattern, content, FALSE)
    IN  IF starts = {} THEN None
        ELSE LET start == Max(Ends(pattern, content, Min(starts), FALSE)) - 1
                 stop == BraceScan(content, start + 1, 1)
             IN  SubSeq(content, start, stop.pos - 1)

\* _extract_method_body: positions are counted from 1, so the opening brace
\* (match.end() - 1 in the code) is the last character of the match
ExtractMethodBody(content, method_name) ==
    LET pattern == MethodStartPattern(method_name)
        starts == MatchStarts(pattern, content, FALSE)
    IN  IF starts = {} THEN None
        ELSE LET start == Max(Ends(pattern, content, Min(starts), FALSE)) - 1
                 stop == BraceScan(content, start + 1, 1)
             IN  IF stop.brace_count = 0
                 THEN SubSeq(content, start, stop.pos - 1)
                 ELSE None

\* variant: only the instance patterns are searched
ContainsEloquentMutation_InstanceOnly(method_body) ==
    \E k \in 1..Len(INSTANCE_MUTATIONS) :
        Search(InstanceMutationPattern(INSTANCE_MUTATIONS[k]), method_body, FALSE)

ContainsEloquentMutation(method_body) ==
    \/ \E k \in 1..Len(INSTANCE_MUTATIONS) :
          Search(InstanceMutationPattern(INSTANCE_MUTATIONS[k]), method_body, FALSE)
    \/ \E k \in 1..Len(STATIC_MUTATIONS) :
          Search(StaticMutationPattern(STATIC_MUTATIONS[k]), method_body, FALSE)

\* variant: the whole content is searched, not the three method bodies
HasDirectMutationsInMutationMethods_Anywhere(content) == ContainsEloquentMutation(content)

HasDirectMutationsInMutationMethods(content) ==
    \E k \in 1..Len(MUTATION_METHODS) :
        LET method_body == ExtractMethodBody(content, MUTATION_METHODS[k])
        IN  Truthy(method_body) /\ ContainsEloquentMutation(method_body)

\* variant: a found mutation is answered with a deny
CSLR_PostToolUseResult_Deny(ev) ==
    IF ev.tool_name # "Write" THEN [response |-> None, scanned |-> FALSE]
    ELSE IF ~IsControllerFile(FilePath(ev)) THEN [response |-> None, scanned |-> FALSE]
    ELSE IF IsTestFile(FilePath(ev)) THEN [response |-> None, scanned |-> FALSE]
    ELSE IF ~Truthy(Content(ev)) THEN [response |-> None, scanned |-> FALSE]
    ELSE [response |-> IF HasDirectMutationsInMutationMethods(Content(ev))
                       THEN Deny(REMINDER_MESSAGE)
                       ELSE None,
          scanned |-> TRUE]

\* post_tool_use: the response, and whether the content was scanned on the way
CSLR_PostToolUseResult(ev) ==
    IF ev.tool_name # "Write" THEN [response |-> None, scanned |-> FALSE]
    ELSE IF ~IsControllerFile(FilePath(ev)) THEN [response |-> None, scanned |-> FALSE]
    ELSE IF IsTestFile(FilePath(ev)) THEN [response |-> None, scanned |-> FALSE]
    ELSE IF ~Truthy(Content(ev)) THEN [response |-> None, scanned |-> FALSE]
    ELSE [response |-> IF HasDirectMutationsInMutationMethods(Content(ev))
                       THEN WithMessage(REMINDER_MESSAGE)
                       ELSE None,
          scanned |-> TRUE]

(***************************************************************************)
(* VueScriptValidator                                                      *)
(***************************************************************************)
VUE_DEFAULT_REASON == <<"V","u","e"," ","f","i","l","e"," ","m","u","s","t"," ","u","s","e"," ","<","s","c","r","i","p","t"," ","s","e","t","u","p"," ","l","a","n","g","=","\"","t","s","\"",">">>

\* r'<script\s+(?=.*\bsetup\b)(?=.*\blang=["\']ts["\'])[^>]*>', re.IGNORECASE
ValidScriptSetupPattern ==
    RCat(<<RStr(<<"<","s","c","r","i","p","t">>), RPlus(RSpace),
           RLook(RCat(<<RStar(RDot), RWordB, RStr(<<"s","e","t","u","p">>), RWordB>>)),
           RLook(RCat(<<RStar(RDot), RWordB, RStr(<<"l","a","n","g","=">>), RSet({"\"", "'"}), RStr(<<"t","s">>),
                        RSet({"\"", "'"})>>)),
           RStar(RNot({">"})), RStr(<<">">>)>>)

\* variant: setup has to come before lang
HasValidScriptSetup_Ordered(content) ==
    Search(RCat(<<RStr(<<"<","s","c","r","i","p","t">>), RPlus(RSpace), RStr(<<"s","e","t","u","p">>), RPlus(RSpace), RStr(<<"l","a","n","g","=">>),
                  RSet({"\"", "'"}), RStr(<<"t","s">>), RSet({"\"", "'"}), RStar(RNot({">"})), RStr(<<">">>)>>),
           content, TRUE)

HasValidScriptSetup(content) == Search(ValidScriptSetupPattern, content, TRUE)

\* r"<decision>\s*(allow|block)\s*</decision>", re.IGNORECASE, with the word given
DecisionPattern(word) ==
    RCat(<<RStr(<<"<","d","e","c","i","s","i","o","n",">">>), RStar(RSpace), RStr(word), RStar(RSpace), RStr(<<"<","/","d","e","c","i","s","i","o","n",">">>)>>)

\* r"<reason>(.*?)</reason>", re.IGNORECASE | re.DOTALL
ReasonPattern == RCat(<<RStr(<<"<","r","e","a","s","o","n",">">>), RStar(RAny), RStr(<<"<","/","r","e","a","s","o","n",">">>)>>)

\* variant: the last decision tag is the one read
DecisionOf_LastTag(response_text) ==
    LET allows == MatchStarts(DecisionPattern(<<"a","l","l","o","w">>), response_text, TRUE)
        blocks == MatchStarts(DecisionPattern(<<"b","l","o","c","k">>), response_text, TRUE)
    IN  IF allows \cup blocks = {} THEN None
        ELSE IF Max(allows \cup blocks) \in allows THEN <<"a","l","l","o","w">> ELSE <<"b","l","o","c","k">>

\* group(1).lower() of the first decision tag, None without one
DecisionOf(response_text) ==
    LET allows == MatchStarts(DecisionPattern(<<"a","l","l","o","w">>), response_text, TRUE)
        blocks == MatchStarts(DecisionPattern(<<"b","l","o","c","k">>), response_text, TRUE)
    IN  IF allows \cup blocks = {} THEN None
        ELSE IF Min(allows \cup blocks) \in allows THEN <<"a","l","l","o","w">> ELSE <<"b","l","o","c","k">>

\* variant: the reason is taken as it stands between the tags
ReasonOf_Untrimmed(response_text) ==
    LET starts == MatchStarts(ReasonPattern, response_text, TRUE)
    IN  IF starts = {} THEN None
        ELSE LET first == Min(starts)
                 end == Min(Ends(ReasonPattern, response_text, first, TRUE))
             IN  SubSeq(response_text, first + Len(<<"<","r","e","a","s","o","n",">">>), end - 1 - Len(<<"<","/","r","e","a","s","o","n",">">>))

\* group(1).strip() of the first reason tag (the shortest match from the
\* leftmost start), None without one
ReasonOf(response_text) ==
    LET starts == MatchStarts(ReasonPattern, response_text, TRUE)
    IN  IF starts = {} THEN None
        ELSE LET first == Min(starts)
                 end == Min(Ends(ReasonPattern, response_text, first, TRUE))
             IN  Strip(SubSeq(response_text, first + Len(<<"<","r","e","a","s","o","n",">">>), end - 1 - Len(<<"<","/","r","e","a","s","o","n",">">>)))

\* variant: without a decision tag the word BLOCK decides
Vue_ParseResponse_KeywordFallback(response_text) ==
    LET decision == DecisionOf(response_text)
    IN  IF decision = None
        THEN IF StrContains(Upper(response_text), <<"B","L","O","C","K">>) THEN Deny(response_text) ELSE Allow
        ELSE IF decision = <<"a","l","l","o","w">> THEN Allow
        ELSE Deny(IF Truthy(ReasonOf(response_text))
                  THEN ReasonOf(response_text)
                  ELSE VUE_DEFAULT_REASON)

\* _parse_response
Vue_ParseResponse(response_text) ==
    LET decision == DecisionOf(response_text)
    IN  IF decision = None THEN Allow
        ELSE IF decision = <<"a","l","l","o","w">> THEN Allow
        ELSE Deny(IF Truthy(ReasonOf(response_text))
                  THEN ReasonOf(response_text)
                  ELSE VUE_DEFAULT_REASON)

\* the texts of the TextBlocks of the AssistantMessages, in order
RECURSIVE ResponseTexts(_)
ResponseTexts(messages) ==
    IF messages = <<>> THEN <<>>
    ELSE LET m == Head(messages)
             blocks == IF m.role = "assistant"
                       THEN SelectSeq(m.content, LAMBDA b : b.type = "text")
                       ELSE <<>>
         IN  [k \in 1..Len(blocks) |-> blocks[k].text] \o ResponseTexts(Tail(messages))

\* "\n".join(response_texts)
ResponseText(messages) == Join(<<"\n">>, ResponseTexts(messages))

\* pre_tool_use up to the delegate: the response, or "query" when it asks
Vue_PreToolUseResult(ev) ==
    IF ~FilePathMatches(ev, <<"*","*","/","*",".","v","u","e">>) THEN [next |-> "done", response |-> None]
    ELSE IF ~Truthy(Content(ev)) THEN [next |-> "done", response |-> None]
    ELSE IF HasValidScriptSetup(Content(ev)) THEN [next |-> "done", response |-> Allow]
    ELSE [next |-> "query", response |-> None]

(***************************************************************************)
(* E2EPathValidator                                                        *)
(***************************************************************************)
E2E_DEFAULT_REASON == <<"E","2","E"," ","t","e","s","t"," ","p","a","t","h"," ","d","o","e","s"," ","n","o","t"," ","f","o","l","l","o","w"," ","c","o","n","v","e","n","t","i","o","n","s",".">>

\* response_text[:500]
TruncateAt == 500

\* variant: either half of the test is enough
IsE2ETestFile_Either(file_path) ==
    IF ~Truthy(file_path) THEN FALSE
    ELSE StrContains(file_path, <<"e","2","e","/","t","e","s","t","s","/">>) \/ EndsWith(file_path, <<".","s","p","e","c",".","t","s">>)

\* _is_e2e_test_file
IsE2ETestFile(file_path) ==
    IF ~Truthy(file_path) THEN FALSE
    ELSE StrContains(file_path, <<"e","2","e","/","t","e","s","t","s","/">>) /\ EndsWith(file_path, <<".","s","p","e","c",".","t","s">>)

\* variant: the fallback denies with the whole text
E2E_ParseResponse_Untruncated(response_text) ==
    LET decision == DecisionOf(response_text)
    IN  IF decision # None
        THEN IF decision = <<"a","l","l","o","w">> THEN None
             ELSE Deny(IF Truthy(ReasonOf(response_text))
                       THEN ReasonOf(response_text)
                       ELSE E2E_DEFAULT_REASON)
        ELSE IF StrContains(Upper(response_text), <<"B","L","O","C","K">>)
        THEN Deny(response_text)
        ELSE None

\* variant: a block is denied with whatever the reason tag holds
E2E_ParseResponse_NoDefault(response_text) ==
    LET decision == DecisionOf(response_text)
    IN  IF decision # None
        THEN IF decision = <<"a","l","l","o","w">> THEN None
             ELSE Deny(OrEmpty(ReasonOf(response_text)))
        ELSE IF StrContains(Upper(response_text), <<"B","L","O","C","K">>)
        THEN Deny(SubSeq(response_text, 1, Min({Len(response_text), TruncateAt})))
        ELSE None

\* _parse_response: the decision tag, then the ALLOW/BLOCK keyword fallback
E2E_ParseResponse(response_text) ==
    LET decision == DecisionOf(response_text)
    IN  IF decision # None
        THEN IF decision = <<"a","l","l","o","w">> THEN None
             ELSE Deny(IF Truthy(ReasonOf(response_text))
                       THEN ReasonOf(response_text)
                       ELSE E2E_DEFAULT_REASON)
        ELSE IF StrContains(Upper(response_text), <<"B","L","O","C","K">>)
        THEN Deny(SubSeq(response_text, 1, Min({Len(response_text), TruncateAt})))
        ELSE None

\* not response_text.strip()
IsBlank(s) == \A k \in 1..Len(s) : s[k] \in SpaceChars

\* _validate_with_agent once the stream has ended
E2E_ValidateResult(messages) ==
    LET response_text == ResponseText(messages)
    IN  IF IsBlank(response_text) THEN None ELSE E2E_ParseResponse(response_text)

\* pre_tool_use up to the delegate.  self.template is read inside the try: a
\* missing prompt.md raises FileNotFoundError, which `except Exception` takes
E2E_PreToolUseResult(ev, exists) ==
    IF ev.tool_name # "Write" THEN [next |-> "done", response |-> None, loaded |-> FALSE]
    ELSE IF ~IsE2ETestFile(FilePath(ev)) THEN [next |-> "done", response |-> None, loaded |-> FALSE]
    ELSE IF ~exists THEN [next |-> "done", response |-> None, loaded |-> FALSE]
    ELSE [next |-> "e2e_query", response |-> None, loaded |-> TRUE]

(***************************************************************************)
(* The delegate request and the log                                        *)
(***************************************************************************)
\* ClaudeAgentOptions(max_turns=1, allowed_tools=[])
Vue_AgentOptions == [max_turns |-> 1, allowed_tools |-> <<>>]

\* ClaudeAgentOptions(max_turns=10, cwd=project_root, allowed_tools=self.ALLOWED_TOOLS)
E2E_AgentOptions == [max_turns |-> 10, allowed_tools |-> <<"Read", "Glob", "Grep", "Bash">>]

\* a line of the log file: the process that wrote it and its message (the
\* fixed part of the message; the path or reason that follows it is left out)
LogLine(pid, message) == [pid |-> pid, message |-> message]

\* variant: the line is written whether or not there is a logger
LogInfo_Unguarded(lg, lines, messages) ==
    lines \o [k \in 1..Len(messages) |-> LogLine("self", messages[k])]

\* _log for each of `messages`: `if self.logger: self.logger.info(message)`
LogInfo(lg, lines, messages) ==
    IF lg THEN lines \o [k \in 1..Len(messages) |-> LogLine("self", messages[k])]
    ELSE lines

\* ControllerStructureValidator._check_write_path logs before it denies
CSV_LogMessages(r) ==
    IF r # None /\ r.kind = "deny" THEN <<"Blocked: Flat controller structure">> ELSE <<>>

\* FormRequestBlocker logs before each of its four denies
FRB_LogMessages(r) ==
    IF r = None \/ r.kind # "deny" THEN <<>>
    ELSE IF StartsWith(r.reason, FRB_BASH_PREFIX) THEN <<"Blocked: artisan make:request command">>
    ELSE IF StartsWith(r.reason, FRB_PATH_PREFIX) THEN <<"Blocked: Writing to Http/Requests directory">>
    ELSE IF StartsWith(r.reason, FRB_EXTENDS_PREFIX) THEN <<"Blocked: File extends FormRequest">>
    ELSE <<"Blocked: File imports FormRequest">>

\* ControllerServiceLayerReminder.post_tool_use and
\* _has_direct_mutations_in_mutation_methods
CSLR_LogMessages(result) ==
    IF ~result.scanned THEN <<>>
    ELSE <<"Checking controller">>
         \o (IF result.response # None
             THEN <<"Found mutation in method", "Found direct Eloquent mutations - adding reminder">>
             ELSE <<>>)

\* VueScriptValidator.pre_tool_use up to the delegate call
Vue_RunLogMessages(result) ==
    IF result.next = "query" THEN <<"Validating Vue file">>
    ELSE IF result.response # None THEN <<"Quick check passed - valid script setup found">>
    ELSE <<>>

\* VueScriptValidator._parse_response
Vue_ParseLogMessages(response_text) ==
    LET decision == DecisionOf(response_text)
    IN  IF decision = None THEN <<"Unexpected response format, defaulting to ALLOW">>
        ELSE IF decision = <<"a","l","l","o","w">> THEN <<"Decision: ALLOW">>
        ELSE <<"Decision: BLOCK">>

\* E2EPathValidator.pre_tool_use and the head of _validate_with_agent
E2E_RunLogMessages(ev, exists) ==
    IF ev.hook_event_name # "PreToolUse" THEN <<>>
    ELSE IF ev.tool_name # "Write" THEN <<>>
    ELSE IF ~IsE2ETestFile(FilePath(ev)) THEN <<>>
    ELSE IF ~exists THEN <<"Validating E2E path", "Agent validation failed">>
    ELSE <<"Validating E2E path", "Running agent with cwd">>

\* the tail of E2EPathValidator._validate_with_agent, and _parse_response
E2E_StopLogMessages(messages) ==
    LET response_text == ResponseText(messages)
        decision == DecisionOf(response_text)
    IN  IF IsBlank(response_text) THEN <<"Empty response from agent">>
        ELSE IF decision # None
        THEN (IF decision = <<"a","l","l","o","w">> THEN <<"Decision: ALLOW">> ELSE <<"Decision: BLOCK">>)
        ELSE IF StrContains(Upper(response_text), <<"B","L","O","C","K">>) THEN <<"Decision: BLOCK (keyword fallback)">>
        ELSE IF StrContains(Upper(response_text), <<"A","L","L","O","W">>) THEN <<"Decision: ALLOW (keyword fallback)">>
        ELSE <<"Unexpected response format, defaulting to ALLOW">>

(***************************************************************************)
(* Input events.  Every text is put together from parts, so that each      *)
(* filter and each pattern of the hooks meets inputs on both of its sides. *)
(***************************************************************************)
\* the longest message stream the delegate sends in the model
MaxMessages == 2

Event(name, tool, tool_input) ==
    [hook_event_name |-> name, tool_name |-> tool, tool_input |-> tool_input]

NoShape == [kind |-> "plain"]
Plain(ev) == [event |-> ev, shape |-> NoShape]

\* a path written with backslashes
Backslashed(path) == ReplaceChar(path, "/", "\\")

\* tool inputs of the tools that carry no content
EditInput(path) == [file_path |-> path, old_string |-> <<"o","l","d"," ","c","o","d","e">>, new_string |-> <<"n","e","w"," ","c","o","d","e">>]
ReadInput(path) == [file_path |-> path]

---------------------------------------------------------------------------
\* ControllerStructureValidator: prefix, directory and file name, with either separator
CSV_Prefixes == {<<>>, <<"/","v","a","r","/","w","w","w","/">>, <<"m","y">>}
CSV_Dirs == {<<"a","p","p","/","H","t","t","p","/","C","o","n","t","r","o","l","l","e","r","s","/">>, <<"a","p","p","/","H","t","t","p","/","C","o","n","t","r","o","l","l","e","r","s","/","U","s","e","r","s","/">>, <<"a","p","p","/","H","t","t","p","/","S","o","m","e","O","t","h","e","r","D","i","r","/">>}
CSV_Files == {<<"U","s","e","r","C","o","n","t","r","o","l","l","e","r",".","p","h","p">>, <<"C","o","n","t","r","o","l","l","e","r",".","p","h","p">>, <<"H","e","l","p","e","r",".","p","h","p">>, <<"R","E","A","D","M","E",".","m","d">>,
              <<"U","s","e","r","C","o","n","t","r","o","l","l","e","r",".","p","h","p",".","b","a","k">>, <<".","p","h","p">>}
CSV_Paths ==
    LET forward == {pre \o dir \o file : pre \in CSV_Prefixes, dir \in CSV_Dirs, file \in CSV_Files}
    IN  forward \cup {Backslashed(path) : path \in forward} \cup {<<>>}
CSV_Content == <<"<","?","p","h","p","\n","c","l","a","s","s"," ","U","s","e","r","C","o","n","t","r","o","l","l","e","r"," ","{","}">>

CSV_Inputs ==
    {Plain(Event("PreToolUse", "Write", [file_path |-> path, content |-> CSV_Content])) : path \in CSV_Paths}
    \cup {Plain(Event("PreToolUse", "Edit", EditInput(path))) : path \in CSV_Paths}
    \cup {Plain(Event("PreToolUse", tool, ReadInput(path))) : tool \in {"Read", "Glob"}, path \in CSV_Paths}
    \cup {Plain(Event("PreToolUse", "Write", [content |-> CSV_Content])),
          Plain(Event("PreToolUse", "Write", [file_path |-> <<>>, content |-> CSV_Content])),
          Plain(Event("PreToolUse", "Write", [file_path |-> <<"a","p","p","/","H","t","t","p","/","C","o","n","t","r","o","l","l","e","r","s","/","U","s","e","r","C","o","n","t","r","o","l","l","e","r",".","p","h","p">>])),
          Plain(Event("PreToolUse", "Bash", [command |-> <<"l","s"," ","a","p","p","/","H","t","t","p","/","C","o","n","t","r","o","l","l","e","r","s","/","U","s","e","r","C","o","n","t","r","o","l","l","e","r",".","p","h","p">>])),
          Plain(Event("PostToolUse", "Write",
                      [file_path |-> <<"a","p","p","/","H","t","t","p","/","C","o","n","t","r","o","l","l","e","r","s","/","U","s","e","r","C","o","n","t","r","o","l","l","e","r",".","p","h","p">>, content |-> CSV_Content]))}

---------------------------------------------------------------------------
\* FormRequestBlocker: commands are interpreter, artisan, separator, subcommand
FRB_Interpreters == {<<"p","h","p"," ">>, <<"/","u","s","r","/","b","i","n","/","p","h","p"," ">>}
FRB_Artisans == {<<"a","r","t","i","s","a","n">>, <<"A","R","T","I","S","A","N">>}
FRB_Separators == {<<>>, <<" ">>, <<" "," ">>, <<"\t">>, <<"\n">>, <<" ","-","v"," ">>}
FRB_Subcommands == {<<"m","a","k","e",":","r","e","q","u","e","s","t">>, <<"M","a","k","e",":","R","e","q","u","e","s","t">>, <<"m","a","k","e",":","m","o","d","e","l">>, <<"m","a","k","e",":"," ","r","e","q","u","e","s","t">>}
FRB_Commands ==
    {pre \o art \o sep \o sub \o <<" ","S","t","o","r","e","U","s","e","r","R","e","q","u","e","s","t">> :
        pre \in FRB_Interpreters, art \in FRB_Artisans, sep \in FRB_Separators, sub \in FRB_Subcommands}
    \cup {<<"l","s"," ","-","l","a">>, <<"c","o","m","p","o","s","e","r"," ","i","n","s","t","a","l","l">>, <<>>, <<"m","a","k","e",":","r","e","q","u","e","s","t"," ","a","r","t","i","s","a","n">>}

FRB_Paths == {<<"a","p","p","/","H","t","t","p","/","R","e","q","u","e","s","t","s","/","S","t","o","r","e","U","s","e","r","R","e","q","u","e","s","t",".","p","h","p">>, <<"a","p","p","/","H","t","t","p","/","R","e","q","u","e","s","t","s","/","U","s","e","r","/","S","t","o","r","e","U","s","e","r","R","e","q","u","e","s","t",".","p","h","p">>,
              <<"/","v","a","r","/","w","w","w","/","a","p","p","/","H","t","t","p","/","R","e","q","u","e","s","t","s","/","S","t","o","r","e","U","s","e","r","R","e","q","u","e","s","t",".","p","h","p">>, <<"a","p","p","/","H","t","t","p","/","R","e","q","u","e","s","t","s","/","R","E","A","D","M","E",".","m","d">>,
              <<"a","p","p","/","H","t","t","p","/","R","e","q","u","e","s","t","s",".","p","h","p">>, <<"a","p","p","/","H","t","t","p","/","R","e","q","u","e","s","t","s","X","/","S","t","o","r","e",".","p","h","p">>,
              <<"a","p","p","/","D","a","t","a","/","U","s","e","r","/","C","r","e","a","t","e","U","s","e","r","D","a","t","a",".","p","h","p">>, <<"a","p","p","/","M","y","R","e","q","u","e","s","t",".","p","h","p">>,
              <<"r","e","s","o","u","r","c","e","s","/","v","i","e","w","s","/","r","e","q","u","e","s","t",".","b","l","a","d","e",".","p","h","p">>, <<"d","o","c","s","/","n","o","t","e","s",".","m","d">>}

FRB_Contents ==
    {<<>>, <<"<","?","p","h","p","\n","c","l","a","s","s"," ","S","t","o","r","e","U","s","e","r","R","e","q","u","e","s","t"," ","{","}">>,
     <<"<","?","p","h","p","\n","u","s","e"," ","S","p","a","t","i","e","\\","L","a","r","a","v","e","l","D","a","t","a","\\","D","a","t","a",";","\n","c","l","a","s","s"," ","C","r","e","a","t","e","U","s","e","r","D","a","t","a"," ","e","x","t","e","n","d","s"," ","D","a","t","a"," ","{","}">>,
     <<"<","?","p","h","p","\n","c","l","a","s","s"," ","M","y","R","e","q","u","e","s","t"," ","e","x","t","e","n","d","s"," ","F","o","r","m","R","e","q","u","e","s","t"," ","{","}">>,
     <<"<","?","p","h","p","\n","c","l","a","s","s"," ","M","y","R","e","q","u","e","s","t"," ","e","x","t","e","n","d","s"," "," ","F","o","r","m","R","e","q","u","e","s","t"," ","{","}">>,
     <<"<","?","p","h","p","\n","c","l","a","s","s"," ","M","y","R","e","q","u","e","s","t"," ","e","x","t","e","n","d","s","\n"," "," "," "," ","F","o","r","m","R","e","q","u","e","s","t"," ","{","}">>,
     <<"<","?","p","h","p","\n","c","l","a","s","s"," ","M","y","R","e","q","u","e","s","t"," ","e","x","t","e","n","d","s","F","o","r","m","R","e","q","u","e","s","t"," ","{","}">>,
     <<"<","?","p","h","p","\n","c","l","a","s","s"," ","M","y","R","e","q","u","e","s","t"," ","E","x","t","e","n","d","s"," ","F","o","r","m","R","e","q","u","e","s","t"," ","{","}">>,
     <<"<","?","p","h","p","\n","c","l","a","s","s"," ","M","y","R","e","q","u","e","s","t"," ","e","x","t","e","n","d","s"," ","f","o","r","m","r","e","q","u","e","s","t"," ","{","}">>,
     <<"<","?","p","h","p","\n","u","s","e"," ","I","l","l","u","m","i","n","a","t","e","\\","F","o","u","n","d","a","t","i","o","n","\\","H","t","t","p","\\","F","o","r","m","R","e","q","u","e","s","t",";","\n","c","l","a","s","s"," ","M","y","R","e","q","u","e","s","t"," ","{","}">>,
     <<"<","?","p","h","p","\n","u","s","e"," ","I","l","l","u","m","i","n","a","t","e","\\","F","o","r","m","R","e","q","u","e","s","t",";","\n","c","l","a","s","s"," ","M","y","R","e","q","u","e","s","t"," ","{","}">>,
     <<"<","?","p","h","p","\n","u","s","e"," ","I","l","l","u","m","i","n","a","t","e","\\","F","o","u","n","d","a","t","i","o","n","\\","H","t","t","p","\\","F","o","r","m","R","e","q","u","e","s","t",";","\n","c","l","a","s","s"," ","M","y","R","e","q","u","e","s","t"," ","e","x","t","e","n","d","s"," ","F","o","r","m","R","e","q","u","e","s","t"," ","{","}">>,
     <<"<","?","p","h","p","\n","u","s","e"," ","I","l","l","u","m","i","n","a","t","e","\\","F","o","u","n","d","a","t","i","o","n","\\","\n","\\","F","o","r","m","R","e","q","u","e","s","t",";">>,
     <<"<","?","p","h","p","\n","U","S","E"," ","I","l","l","u","m","i","n","a","t","e","\\","F","o","u","n","d","a","t","i","o","n","\\","H","t","t","p","\\","F","o","r","m","R","e","q","u","e","s","t",";">>,
     <<"<","?","p","h","p","\n","u","s","e"," ","A","p","p","\\","H","t","t","p","\\","F","o","r","m","R","e","q","u","e","s","t",";">>,
     <<"F","o","r","m","R","e","q","u","e","s","t"," ","i","s"," ","m","e","n","t","i","o","n","e","d"," ","h","e","r","e"," ","b","u","t"," ","i","t","'","s"," ","a"," ","b","l","a","d","e"," ","f","i","l","e">>}

FRB_Inputs ==
    {Plain(Event("PreToolUse", "Bash", [command |-> command])) : command \in FRB_Commands}
    \cup {Plain(Event("PreToolUse", "Write", [file_path |-> path, content |-> content])) :
            path \in FRB_Paths, content \in FRB_Contents}
    \cup {Plain(Event("PreToolUse", "Write", [file_path |-> path])) : path \in FRB_Paths}
    \cup {Plain(Event("PreToolUse", "Write", [content |-> content])) : content \in FRB_Contents}
    \cup {Plain(Event("PreToolUse", "Bash", [description |-> <<"a","r","t","i","s","a","n"," ","m","a","k","e",":","r","e","q","u","e","s","t">>])),
          Plain(Event("PreToolUse", "Bash", [command |-> JsonNull])),
          Plain(Event("PreToolUse", "Read", ReadInput(<<"a","p","p","/","H","t","t","p","/","R","e","q","u","e","s","t","s","/","T","e","s","t",".","p","h","p">>))),
          Plain(Event("PreToolUse", "Edit", EditInput(<<"a","p","p","/","H","t","t","p","/","R","e","q","u","e","s","t","s","/","T","e","s","t",".","p","h","p">>))),
          Plain(Event("PostToolUse", "Bash", [command |-> <<"p","h","p"," ","a","r","t","i","s","a","n"," ","m","a","k","e",":","r","e","q","u","e","s","t"," ","T","e","s","t">>]))}

---------------------------------------------------------------------------
\* ControllerServiceLayerReminder: a controller class with one method `method`
\* laid out as `form`, and one statement `call` placed as the form says
CSLR_Methods == {<<"s","t","o","r","e">>, <<"u","p","d","a","t","e">>, <<"d","e","s","t","r","o","y">>, <<"i","n","d","e","x">>}

CSLR_Calls ==
    [save |-> <<"$","u","s","e","r","-",">","s","a","v","e","(",")",";">>, update |-> <<"$","u","s","e","r","-",">","u","p","d","a","t","e","(","$","d","a","t","a",")",";">>, delete |-> <<"$","u","s","e","r","-",">","d","e","l","e","t","e","(",")",";">>,
     forceDelete |-> <<"$","u","s","e","r","-",">","f","o","r","c","e","D","e","l","e","t","e","(",")",";">>, create |-> <<"U","s","e","r",":",":","c","r","e","a","t","e","(","$","d","a","t","a",")",";">>,
     updateOrCreate |-> <<"U","s","e","r",":",":","u","p","d","a","t","e","O","r","C","r","e","a","t","e","(","$","a",","," ","$","b",")",";">>, firstOrCreate |-> <<"U","s","e","r",":",":","f","i","r","s","t","O","r","C","r","e","a","t","e","(","$","a",")",";">>,
     destroy |-> <<"U","s","e","r",":",":","d","e","s","t","r","o","y","(","$","i","d",")",";">>, service |-> <<"$","t","h","i","s","-",">","u","s","e","r","S","e","r","v","i","c","e","-",">","c","r","e","a","t","e","(","$","d","a","t","a",")",";">>,
     none |-> <<"r","e","t","u","r","n"," ","v","i","e","w","(","'","u","s","e","r","s","'",")",";">>]

\* the statements the reminder is about
CSLR_MutationCalls ==
    {"save", "update", "delete", "forceDelete", "create", "updateOrCreate", "firstOrCreate", "destroy"}

\* forms whose method body, as PHP reads it, holds the statement
CSLR_Forms ==
    [plain    |-> <<<<"p","u","b","l","i","c"," ","f","u","n","c","t","i","o","n"," ">>, <<"(","R","e","q","u","e","s","t"," ","$","r",")","\n","{","\n"," "," ">>, <<" ","}">>>>,
     typed    |-> <<<<"p","u","b","l","i","c"," ","f","u","n","c","t","i","o","n"," ">>, <<"(","R","e","q","u","e","s","t"," ","$","r",")",":"," ","J","s","o","n","R","e","s","p","o","n","s","e"," ","{","\n"," "," ">>, <<" ","}">>>>,
     nullable |-> <<<<"p","u","b","l","i","c"," "," ","f","u","n","c","t","i","o","n"," ">>, <<" ","(","$","r",")"," ",":"," ","?","\\","A","p","p","\\","R","e","p","l","y","\n","{"," ">>, <<" ","}">>>>,
     nested   |-> <<<<"p","u","b","l","i","c"," ","f","u","n","c","t","i","o","n"," ">>, <<"(","$","r",")"," ","{"," ","i","f"," ","(","$","r",")"," ","{"," ">>, <<" ","}"," ","r","e","t","u","r","n"," ","1",";"," ","}">>>>,
     union    |-> <<<<"p","u","b","l","i","c"," ","f","u","n","c","t","i","o","n"," ">>, <<"(","$","r",")",":"," ","J","s","o","n","R","e","s","p","o","n","s","e","|","R","e","s","p","o","n","s","e"," ","{"," ">>, <<" ","}">>>>,
     static   |-> <<<<"p","u","b","l","i","c"," ","s","t","a","t","i","c"," ","f","u","n","c","t","i","o","n"," ">>, <<"(","$","r",")"," ","{"," ">>, <<" ","}">>>>,
     defparen |-> <<<<"p","u","b","l","i","c"," ","f","u","n","c","t","i","o","n"," ">>, <<"(","$","o"," ","="," ","a","r","r","a","y","(",")",")"," ","{"," ">>, <<" ","}">>>>,
     strbrace |-> <<<<"p","u","b","l","i","c"," ","f","u","n","c","t","i","o","n"," ">>, <<"(","$","r",")"," ","{"," ","$","s"," ","="," ","\"","}","\"",";"," ">>, <<" ","}">>>>,
     after    |-> <<<<"p","u","b","l","i","c"," ","f","u","n","c","t","i","o","n"," ">>, <<"(","$","r",")"," ","{"," ","r","e","t","u","r","n"," ","1",";"," ","}","\n"," ","p","u","b","l","i","c"," ","f","u","n","c","t","i","o","n"," ","h","e","l","p","e","r","(",")"," ","{"," ">>, <<" ","}">>>>,
     unclosed |-> <<<<"p","u","b","l","i","c"," ","f","u","n","c","t","i","o","n"," ">>, <<"(","$","r",")"," ","{"," ","i","f"," ","(","$","r",")"," ","{"," ">>, <<" ","}">>>>,
     leak     |-> <<<<"p","u","b","l","i","c"," ","f","u","n","c","t","i","o","n"," ">>, <<"(","$","r",")"," ","{"," ","$","s"," ","="," ","\"","{","\"",";"," ","r","e","t","u","r","n"," ","1",";"," ","}","\n"," ","p","u","b","l","i","c"," ","f","u","n","c","t","i","o","n"," ","h","e","l","p","e","r","(",")"," ","{"," ">>, <<" ","}">>>>]

\* forms in which `method` is a complete method whose own body holds the statement
CSLR_BodyForms == {"plain", "typed", "nullable", "nested", "union", "static", "defparen", "strbrace"}

\* forms the simplified declaration pattern and the brace count are written for
CSLR_SimpleForms == {"plain", "typed", "nullable", "nested"}

CSLR_Render(method, call, form) ==
    <<"<","?","p","h","p","\n","c","l","a","s","s"," ","U","s","e","r","C","o","n","t","r","o","l","l","e","r"," ","{","\n"," ">>
    \o CSLR_Forms[form][1] \o method \o CSLR_Forms[form][2] \o CSLR_Calls[call] \o CSLR_Forms[form][3]
    \o (IF form = "unclosed" THEN <<>> ELSE <<"\n","}">>)

CSLR_GoodPath == <<"a","p","p","/","H","t","t","p","/","C","o","n","t","r","o","l","l","e","r","s","/","U","s","e","r","s","/","U","s","e","r","C","o","n","t","r","o","l","l","e","r",".","p","h","p">>

CSLR_Paths == {CSLR_GoodPath, <<"a","p","p","/","H","t","t","p","/","C","o","n","t","r","o","l","l","e","r","s","/","U","s","e","r","C","o","n","t","r","o","l","l","e","r",".","p","h","p">>, <<"C","o","n","t","r","o","l","l","e","r","s","/","X",".","p","h","p">>,
               <<"a","p","p","/","S","e","r","v","i","c","e","s","/","U","s","e","r","S","e","r","v","i","c","e",".","p","h","p">>, <<"a","p","p","/","H","t","t","p","/","C","o","n","t","r","o","l","l","e","r","s","/","U","s","e","r","s","/","r","e","a","d","m","e",".","m","d">>,
               <<"a","p","p","/","H","t","t","p","/","c","o","n","t","r","o","l","l","e","r","s","/","U","s","e","r","C","o","n","t","r","o","l","l","e","r",".","p","h","p">>,
               <<"t","e","s","t","s","/","F","e","a","t","u","r","e","/","C","o","n","t","r","o","l","l","e","r","s","/","U","s","e","r","C","o","n","t","r","o","l","l","e","r","T","e","s","t",".","p","h","p">>, <<"T","e","s","t","s","/","C","o","n","t","r","o","l","l","e","r","s","/","U","s","e","r","C","o","n","t","r","o","l","l","e","r",".","p","h","p">>,
               <<"s","r","c","/","t","e","s","t","s","/","C","o","n","t","r","o","l","l","e","r","s","/","U","s","e","r","C","o","n","t","r","o","l","l","e","r",".","p","h","p">>, <<"a","p","p","/","T","E","S","T","S","/","C","o","n","t","r","o","l","l","e","r","s","/","U","s","e","r","C","o","n","t","r","o","l","l","e","r",".","p","h","p">>,
               <<"a","p","p","/","m","y","t","e","s","t","s","/","C","o","n","t","r","o","l","l","e","r","s","/","U","s","e","r","C","o","n","t","r","o","l","l","e","r",".","p","h","p">>, <<>>}

CSLR_Shape(method, call, form) == [kind |-> "controller", method |-> method, call |-> call, form |-> form]

CSLR_Inputs ==
    {[event |-> Event("PostToolUse", "Write",
                      [file_path |-> CSLR_GoodPath, content |-> CSLR_Render(method, call, form)]),
      shape |-> CSLR_Shape(method, call, form)] :
        method \in CSLR_Methods, call \in DOMAIN CSLR_Calls, form \in DOMAIN CSLR_Forms}
    \cup {[event |-> Event("PostToolUse", "Write",
                           [file_path |-> path, content |-> CSLR_Render(<<"s","t","o","r","e">>, "save", "plain")]),
           shape |-> CSLR_Shape(<<"s","t","o","r","e">>, "save", "plain")] : path \in CSLR_Paths}
    \cup {Plain(Event("PostToolUse", "Write", [file_path |-> path, content |-> <<>>])) : path \in CSLR_Paths}
    \cup {Plain(Event("PostToolUse", "Write", [file_path |-> path])) : path \in CSLR_Paths}
    \cup {[event |-> Event(name, tool,
                           [file_path |-> CSLR_GoodPath, content |-> CSLR_Render(<<"s","t","o","r","e">>, "save", "plain")]),
           shape |-> CSLR_Shape(<<"s","t","o","r","e">>, "save", "plain")] :
            name \in {"PostToolUse"}, tool \in {"Edit", "Read", "Bash", "MultiEdit"}}
    \cup {[event |-> Event("PostToolUse", "Write", [content |-> CSLR_Render(<<"s","t","o","r","e">>, "save", "plain")]),
           shape |-> CSLR_Shape(<<"s","t","o","r","e">>, "save", "plain")],
          [event |-> Event("PreToolUse", "Write",
                           [file_path |-> CSLR_GoodPath, content |-> CSLR_Render(<<"s","t","o","r","e">>, "save", "plain")]),
           shape |-> CSLR_Shape(<<"s","t","o","r","e">>, "save", "plain")]}

---------------------------------------------------------------------------
\* VueScriptValidator: a component whose script tag is `tag`
Vue_Tags ==
    [setup_lang   |-> <<"<","s","c","r","i","p","t"," ","s","e","t","u","p"," ","l","a","n","g","=","\"","t","s","\"",">">>,
     lang_setup   |-> <<"<","s","c","r","i","p","t"," ","l","a","n","g","=","\"","t","s","\""," ","s","e","t","u","p",">">>,
     extra_attrs  |-> <<"<","s","c","r","i","p","t"," ","s","e","t","u","p"," ","l","a","n","g","=","\"","t","s","\""," ","g","e","n","e","r","i","c","=","\"","T","\"",">">>,
     single_quote |-> <<"<","s","c","r","i","p","t"," ","l","a","n","g","=","'","t","s","'"," ","s","e","t","u","p",">">>,
     upper_case   |-> <<"<","S","C","R","I","P","T"," ","S","E","T","U","P"," ","L","A","N","G","=","\"","T","S","\"",">">>,
     setup_only   |-> <<"<","s","c","r","i","p","t"," ","s","e","t","u","p",">">>,
     lang_only    |-> <<"<","s","c","r","i","p","t"," ","l","a","n","g","=","\"","t","s","\"",">">>,
     bare         |-> <<"<","s","c","r","i","p","t",">">>,
     none         |-> <<"<","s","t","y","l","e"," ","s","c","o","p","e","d",">">>,
     lang_js      |-> <<"<","s","c","r","i","p","t"," ","s","e","t","u","p"," ","l","a","n","g","=","\"","j","s","\"",">">>,
     many_lines   |-> <<"<","s","c","r","i","p","t","\n"," "," ","s","e","t","u","p","\n"," "," ","l","a","n","g","=","\"","t","s","\"",">">>,
     late_lang    |-> <<"<","s","c","r","i","p","t"," ","s","e","t","u","p",">"," ","c","o","n","s","t"," ","a","t","t","r","s"," ","="," ","'","l","a","n","g","=","\"","t","s","\"","'",";">>]

\* tags that carry both attributes, as the claims read them
Vue_ValidTags == {"setup_lang", "lang_setup", "extra_attrs"}

\* tags that lack one of the attributes or are no script tag
Vue_InvalidTags == {"setup_only", "lang_only", "bare", "none"}

Vue_Render(tag) == <<"<","t","e","m","p","l","a","t","e",">","<","p",">","H","i","<","/","p",">","<","/","t","e","m","p","l","a","t","e",">","\n">> \o Vue_Tags[tag] \o <<"\n","c","o","n","s","t"," ","n"," ","="," ","1","\n","<","/","s","c","r","i","p","t",">","\n">>

Vue_Paths == {<<"r","e","s","o","u","r","c","e","s","/","j","s","/","C","o","m","p","o","n","e","n","t","s","/","M","y","C","o","m","p","o","n","e","n","t",".","v","u","e">>, <<"C","o","m","p","o","n","e","n","t",".","v","u","e">>, <<"r","e","s","o","u","r","c","e","s","/","j","s","/","u","t","i","l","s",".","t","s">>,
              <<"a","p","p","/","H","t","t","p","/","C","o","n","t","r","o","l","l","e","r","s","/","T","e","s","t","C","o","n","t","r","o","l","l","e","r",".","p","h","p">>, <<"r","e","s","o","u","r","c","e","s","/","j","s","/","M","y","C","o","m","p","o","n","e","n","t",".","v","u","e",".","b","a","k">>}

Vue_Shape(tag) == [kind |-> "component", tag |-> tag]

Vue_Inputs ==
    {[event |-> Event("PreToolUse", "Write", [file_path |-> path, content |-> Vue_Render(tag)]),
      shape |-> Vue_Shape(tag)] : path \in Vue_Paths, tag \in DOMAIN Vue_Tags}
    \cup {Plain(Event("PreToolUse", "Write", [file_path |-> path, content |-> <<>>])) : path \in Vue_Paths}
    \cup {Plain(Event("PreToolUse", "Write", [file_path |-> path])) : path \in Vue_Paths}
    \cup {[event |-> Event("PreToolUse", "Write", [content |-> Vue_Render("setup_only")]),
           shape |-> Vue_Shape("setup_only")],
          Plain(Event("PreToolUse", "Edit", EditInput(<<"C","o","m","p","o","n","e","n","t",".","v","u","e">>))),
          Plain(Event("PreToolUse", "Read", ReadInput(<<"C","o","m","p","o","n","e","n","t",".","v","u","e">>))),
          [event |-> Event("PreToolUse", "NotebookEdit",
                           [file_path |-> <<"C","o","m","p","o","n","e","n","t",".","v","u","e">>, content |-> Vue_Render("bare")]),
           shape |-> Vue_Shape("bare")],
          [event |-> Event("PreToolUse", "Edit",
                           [file_path |-> <<"C","o","m","p","o","n","e","n","t",".","v","u","e">>, content |-> Vue_Render("setup_lang"),
                            old_string |-> <<"o","l","d">>, new_string |-> <<"n","e","w">>]),
           shape |-> Vue_Shape("setup_lang")],
          Plain(Event("PreToolUse", "Bash", [command |-> <<"c","a","t"," ","C","o","m","p","o","n","e","n","t",".","v","u","e">>])),
          [event |-> Event("PostToolUse", "Write",
                           [file_path |-> <<"C","o","m","p","o","n","e","n","t",".","v","u","e">>, content |-> Vue_Render("setup_only")]),
           shape |-> Vue_Shape("setup_only")]}

\* what the delegate may send: messages of some role holding blocks
TextBlock(text) == [type |-> "text", text |-> text]
AssistantMessage(blocks) == [role |-> "assistant", content |-> blocks]

Messages ==
    {AssistantMessage(<<TextBlock(<<"<","d","e","c","i","s","i","o","n",">","a","l","l","o","w","<","/","d","e","c","i","s","i","o","n",">">>)>>),
     AssistantMessage(<<TextBlock(<<"<","d","e","c","i","s","i","o","n",">","b","l","o","c","k","<","/","d","e","c","i","s","i","o","n",">","\n","<","r","e","a","s","o","n",">","M","i","s","s","i","n","g"," ","t","h","e"," ","a","t","t","r","i","b","u","t","e","<","/","r","e","a","s","o","n",">">>)>>),
     AssistantMessage(<<TextBlock(<<"<","D","e","c","i","s","i","o","n",">"," ","B","L","O","C","K"," ","<","/","D","e","c","i","s","i","o","n",">">>)>>),
     AssistantMessage(<<TextBlock(<<"<","d","e","c","i","s","i","o","n",">","b","l","o","c","k","<","/","d","e","c","i","s","i","o","n",">","<","r","e","a","s","o","n",">"," ","\n"," ","<","/","r","e","a","s","o","n",">">>)>>),
     AssistantMessage(<<TextBlock(<<"I"," ","w","o","u","l","d"," ","B","L","O","C","K"," ","t","h","i","s"," ","f","i","l","e">>)>>),
     AssistantMessage(<<TextBlock(<<"<","d","e","c","i","s","i","o","n",">">>), [type |-> "tool_use"], TextBlock(<<"b","l","o","c","k","<","/","d","e","c","i","s","i","o","n",">">>)>>),
     AssistantMessage(<<TextBlock(<<"<","r","e","a","s","o","n",">","N","o"," ","s","c","r","i","p","t"," ","t","a","g","<","/","r","e","a","s","o","n",">">>)>>),
     [role |-> "user", content |-> <<TextBlock(<<"<","d","e","c","i","s","i","o","n",">","b","l","o","c","k","<","/","d","e","c","i","s","i","o","n",">">>)>>],
     [role |-> "result", content |-> <<>>]}

---------------------------------------------------------------------------
\* E2EPathValidator: paths on both sides of each half of the filter; a tool
\* name of "" stands for an event without one
E2E_GoodPaths == {<<"e","2","e","/","t","e","s","t","s","/","r","o","u","t","e","s","/","a","p","p","/","u","s","e","r","s","/","i","n","d","e","x","/","s","m","o","k","e",".","s","p","e","c",".","t","s">>, <<"/","v","a","r","/","w","w","w","/","e","2","e","/","t","e","s","t","s","/","l","o","g","i","n",".","s","p","e","c",".","t","s">>}

E2E_Paths == E2E_GoodPaths \cup
    {<<"e","2","e","/","t","e","s","t","s","/","r","o","u","t","e","s","/","a","p","p","/","u","s","e","r","s","/","h","e","l","p","e","r",".","t","s">>, <<"t","e","s","t","s","/","F","e","a","t","u","r","e","/","U","s","e","r","T","e","s","t",".","p","h","p">>, <<"e","2","e","/","s","m","o","k","e",".","s","p","e","c",".","t","s">>,
     <<"e","2","e","/","t","e","s","t","s","/","s","m","o","k","e",".","s","p","e","c",".","t","s",".","b","a","k">>, <<"E","2","E","/","T","e","s","t","s","/","s","m","o","k","e",".","s","p","e","c",".","t","s">>, <<>>}

E2E_Inputs ==
    {Plain(Event("PreToolUse", tool, [file_path |-> path, content |-> <<"t","e","s","t"," ","c","o","n","t","e","n","t">>])) :
        tool \in {"Write", "Edit", ""}, path \in E2E_Paths}
    \cup {Plain(Event("PreToolUse", "Write", [content |-> <<"t","e","s","t">>])),
          Plain(Event("PreToolUse", "Write", [file_path |-> <<"e","2","e","/","t","e","s","t","s","/","r","o","u","t","e","s","/","a","p","p","/","u","s","e","r","s","/","i","n","d","e","x","/","s","m","o","k","e",".","s","p","e","c",".","t","s">>])),
          Plain(Event("PreToolUse", "Write", [file_path |-> JsonNull, content |-> <<"t","e","s","t">>])),
          Plain(Event("PreToolUse", "Read", ReadInput(<<"e","2","e","/","t","e","s","t","s","/","r","o","u","t","e","s","/","a","p","p","/","u","s","e","r","s","/","i","n","d","e","x","/","s","m","o","k","e",".","s","p","e","c",".","t","s">>))),
          Plain(Event("PreToolUse", "Bash", [command |-> <<"n","p","m"," ","r","u","n"," ","t","e","s","t",":","e","2","e">>])),
          Plain(Event("PostToolUse", "Write",
                      [file_path |-> <<"e","2","e","/","t","e","s","t","s","/","r","o","u","t","e","s","/","a","p","p","/","u","s","e","r","s","/","i","n","d","e","x","/","s","m","o","k","e",".","s","p","e","c",".","t","s">>, content |-> <<"t","e","s","t">>])),
          Plain(Event("Stop", "Write",
                      [file_path |-> <<"e","2","e","/","t","e","s","t","s","/","r","o","u","t","e","s","/","a","p","p","/","u","s","e","r","s","/","i","n","d","e","x","/","s","m","o","k","e",".","s","p","e","c",".","t","s">>, content |-> <<"t","e","s","t">>]))}

\* a text longer than the fallback's cut, its keyword in front
LongText == <<"F","i","n","d","i","n","g","s",":"," ","b","l","o","c","k","."," ">> \o [i \in 1..(TruncateAt + 10) |-> "."] \o <<" ","e","n","d">>

E2E_Messages ==
    {AssistantMessage(<<TextBlock(<<"<","d","e","c","i","s","i","o","n",">","a","l","l","o","w","<","/","d","e","c","i","s","i","o","n",">">>)>>),
     AssistantMessage(<<TextBlock(<<"<","d","e","c","i","s","i","o","n",">","b","l","o","c","k","<","/","d","e","c","i","s","i","o","n",">","\n","<","r","e","a","s","o","n",">"," ","N","o"," ","s","u","c","h"," ","r","o","u","t","e"," ","\n","<","/","r","e","a","s","o","n",">">>)>>),
     AssistantMessage(<<TextBlock(<<"<","D","E","C","I","S","I","O","N",">","\t","B","l","o","c","k"," ","<","/","D","E","C","I","S","I","O","N",">","<","R","e","a","s","o","n",">"," ","<","/","R","e","a","s","o","n",">">>)>>),
     AssistantMessage(<<TextBlock(<<"T","h","i","s"," ","w","o","u","l","d"," ","u","n","b","l","o","c","k"," ","t","h","e"," ","r","o","u","t","e">>)>>),
     AssistantMessage(<<TextBlock(<<"A","L","L","O","W">>)>>),
     AssistantMessage(<<TextBlock(<<"D","o"," ","n","o","t"," ","A","L","L","O","W"," ","t","h","i","s",":"," ","B","L","O","C","K">>)>>),
     AssistantMessage(<<TextBlock(<<"T","h","e"," ","p","a","t","h"," ","i","s"," ","f","i","n","e">>), [type |-> "tool_use"], TextBlock(<<" ","\n">>)>>),
     AssistantMessage(<<TextBlock(<<" ","\n","\t">>)>>),
     AssistantMessage(<<TextBlock(LongText)>>),
     [role |-> "user", content |-> <<TextBlock(<<"<","d","e","c","i","s","i","o","n",">","b","l","o","c","k","<","/","d","e","c","i","s","i","o","n",">">>)>>],
     [role |-> "result", content |-> <<>>]}

---------------------------------------------------------------------------
Hooks == {"ControllerStructureValidator", "FormRequestBlocker",
          "ControllerServiceLayerReminder", "VueScriptValidator", "E2EPathValidator"}

InputsOf(h) ==
    CASE h = "ControllerStructureValidator" -> CSV_Inputs
      [] h = "FormRequestBlocker" -> FRB_Inputs
      [] h = "ControllerServiceLayerReminder" -> CSLR_Inputs
      [] h = "VueScriptValidator" -> Vue_Inputs
      [] h = "E2EPathValidator" -> E2E_Inputs

\* no E2EPathValidator object has been followed
NoTemplate ==
    /\ template = None
    /\ promptFile = None
    /\ reads = 0
    /\ prompts = <<>>

\* the harness has not been called
NoHarness ==
    /\ hookName = ""
    /\ proc = None
    /\ spawned = 0
    /\ outcome = None
    /\ verdict = None

(***************************************************************************)
(* The hook process                                                        *)
(***************************************************************************)
Init ==
    /\ hook \in Hooks
    /\ \E in \in InputsOf(hook) : event = in.event /\ shape = in.shape
    /\ pc = "start"
    /\ response = None
    /\ scanned = FALSE
    /\ agentCalls = 0
    /\ agentError = FALSE
    /\ stream = <<>>
    /\ exitCode = -1
    /\ templateExists \in (IF hook = "E2EPathValidator" THEN BOOLEAN ELSE {TRUE})
    /\ templateLoaded = FALSE
    /\ handled = <<>>
    /\ stdout = <<>>
    /\ request = None
    /\ logger = FALSE
    /\ log = <<>>
    /\ NoTemplate
    /\ NoHarness

\* HookHandler.run: the handler of the event's name, and None from the handler
\* a hook does not override
Dispatch(ev, pre, post) ==
    IF ev.hook_event_name = "PreToolUse" THEN pre
    ELSE IF ev.hook_event_name = "PostToolUse" THEN post
    ELSE None

\* the handler HookHandler.run invokes for the event
HandlerFor(ev) ==
    IF ev.hook_event_name = "PreToolUse" THEN <<"pre_tool_use">>
    ELSE IF ev.hook_event_name = "PostToolUse" THEN <<"post_tool_use">>
    ELSE <<>>

ControllerStructureValidator_Run ==
    /\ pc = "start"
    /\ hook = "ControllerStructureValidator"
    /\ handled' = handled \o HandlerFor(event)
    /\ LET result == Dispatch(event, CSV_PreToolUseResult(event), None)
       IN  /\ response' = result
           /\ log' = LogInfo(logger, log, CSV_LogMessages(result))
    /\ pc' = "done"
    /\ UNCHANGED <<hook, event, shape, scanned, agentCalls, agentError, stream, exitCode,
                   templateExists, templateLoaded, stdout, request, logger,
                   templateVars, harnessVars>>

\* a TypeError out of re.search leaves the handler and the process fails
FormRequestBlocker_Run ==
    /\ pc = "start"
    /\ hook = "FormRequestBlocker"
    /\ handled' = handled \o HandlerFor(event)
    /\ LET result == Dispatch(event, FRB_PreToolUseResult(event), None)
       IN  /\ IF result = Raised
              THEN response' = None /\ pc' = "failed"
              ELSE response' = result /\ pc' = "done"
           /\ log' = LogInfo(logger, log, FRB_LogMessages(result))
    /\ UNCHANGED <<hook, event, shape, scanned, agentCalls, agentError, stream, exitCode,
                   templateExists, templateLoaded, stdout, request, logger,
                   templateVars, harnessVars>>

ControllerServiceLayerReminder_Run ==
    /\ pc = "start"
    /\ hook = "ControllerServiceLayerReminder"
    /\ handled' = handled \o HandlerFor(event)
    /\ LET result == Dispatch(event, [response |-> None, scanned |-> FALSE], CSLR_PostToolUseResult(event))
       IN  /\ response' = result.response /\ scanned' = result.scanned
           /\ log' = LogInfo(logger, log, CSLR_LogMessages(result))
    /\ pc' = "done"
    /\ UNCHANGED <<hook, event, shape, agentCalls, agentError, stream, exitCode,
                   templateExists, templateLoaded, stdout, request, logger,
                   templateVars, harnessVars>>

\* pre_tool_use up to asyncio.run(self._validate_with_agent(content))
VueScriptValidator_Run ==
    /\ pc = "start"
    /\ hook = "VueScriptValidator"
    /\ handled' = handled \o HandlerFor(event)
    /\ LET result == Dispatch(event, Vue_PreToolUseResult(event), [next |-> "done", response |-> None])
       IN  /\ response' = result.response
           /\ pc' = result.next
           /\ agentCalls' = IF result.next = "query" THEN agentCalls + 1 ELSE agentCalls
           /\ request' = IF result.next = "query" THEN Vue_AgentOptions ELSE request
           /\ log' = LogInfo(logger, log, Vue_RunLogMessages(result))
    /\ UNCHANGED <<hook, event, shape, scanned, agentError, stream, exitCode,
                   templateExists, templateLoaded, stdout, logger,
                   templateVars, harnessVars>>

\* async for message in query(...): the delegate sends one more message
AgentYield ==
    /\ pc = "query"
    /\ Len(stream) < MaxMessages
    /\ \E message \in Messages : stream' = Append(stream, message)
    /\ UNCHANGED <<hook, event, shape, pc, response, scanned, agentCalls, agentError, exitCode,
                   templateExists, templateLoaded, handled, stdout, request, logger, log,
                   templateVars, harnessVars>>

\* the stream ends: the texts are joined and parsed
AgentStop ==
    /\ pc = "query"
    /\ response' = Vue_ParseResponse(ResponseText(stream))
    /\ log' = LogInfo(logger, log, Vue_ParseLogMessages(ResponseText(stream)))
    /\ pc' = "done"
    /\ UNCHANGED <<hook, event, shape, scanned, agentCalls, agentError, stream, exitCode,
                   templateExists, templateLoaded, handled, stdout, request, logger,
                   templateVars, harnessVars>>

\* variant: a failed delegate call blocks the Write
AgentRaise_FailClosed ==
    /\ pc = "query"
    /\ agentError' = TRUE
    /\ response' = Deny(VUE_DEFAULT_REASON)
    /\ log' = LogInfo(logger, log, <<"Agent validation failed">>)
    /\ pc' = "done"
    /\ UNCHANGED <<hook, event, shape, scanned, agentCalls, stream, exitCode,
                   templateExists, templateLoaded, handled, stdout, request, logger,
                   templateVars, harnessVars>>

\* the delegate call raises: except Exception -> fail open
AgentRaise ==
    /\ pc = "query"
    /\ agentError' = TRUE
    /\ response' = Allow
    /\ log' = LogInfo(logger, log, <<"Agent validation failed">>)
    /\ pc' = "done"
    /\ UNCHANGED <<hook, event, shape, scanned, agentCalls, stream, exitCode,
                   templateExists, templateLoaded, handled, stdout, request, logger,
                   templateVars, harnessVars>>

\* E2EPathValidator.pre_tool_use up to the delegate's stream
E2EPathValidator_Run ==
    /\ pc = "start"
    /\ hook = "E2EPathValidator"
    /\ handled' = handled \o HandlerFor(event)
    /\ LET unhandled == [next |-> "done", response |-> None, loaded |-> FALSE]
           returned == Dispatch(event, E2E_PreToolUseResult(event, templateExists), unhandled)
           result == IF returned = None THEN unhandled ELSE returned
       IN  /\ response' = result.response
           /\ pc' = result.next
           /\ templateLoaded' = result.loaded
           /\ agentCalls' = IF result.next = "e2e_query" THEN agentCalls + 1 ELSE agentCalls
           /\ request' = IF result.next = "e2e_query" THEN E2E_AgentOptions ELSE request
    /\ log' = LogInfo(logger, log, E2E_RunLogMessages(event, templateExists))
    /\ UNCHANGED <<hook, event, shape, scanned, agentError, stream, exitCode, templateExists, stdout,
                   logger,
                   templateVars, harnessVars>>

\* async for message in query(...)
E2E_AgentYield ==
    /\ pc = "e2e_query"
    /\ Len(stream) < MaxMessages
    /\ \E message \in E2E_Messages : stream' = Append(stream, message)
    /\ UNCHANGED <<hook, event, shape, pc, response, scanned, agentCalls, agentError, exitCode,
                   templateExists, templateLoaded, handled, stdout, request, logger, log,
                   templateVars, harnessVars>>

\* the stream ends: empty text allows, anything else is parsed
E2E_AgentStop ==
    /\ pc = "e2e_query"
    /\ response' = E2E_ValidateResult(stream)
    /\ log' = LogInfo(logger, log, E2E_StopLogMessages(stream))
    /\ pc' = "done"
    /\ UNCHANGED <<hook, event, shape, scanned, agentCalls, agentError, stream, exitCode,
                   templateExists, templateLoaded, handled, stdout, request, logger,
                   templateVars, harnessVars>>

\* variant: the exception leaves pre_tool_use
E2E_AgentRaise_Propagates ==
    /\ pc = "e2e_query"
    /\ agentError' = TRUE
    /\ response' = None
    /\ pc' = "failed"
    /\ UNCHANGED <<hook, event, shape, scanned, agentCalls, stream, exitCode,
                   templateExists, templateLoaded, handled, stdout, request, logger, log,
                   templateVars, harnessVars>>

\* the delegate call raises: except Exception -> return None
E2E_AgentRaise ==
    /\ pc = "e2e_query"
    /\ agentError' = TRUE
    /\ response' = None
    /\ log' = LogInfo(logger, log, <<"Agent validation failed">>)
    /\ pc' = "done"
    /\ UNCHANGED <<hook, event, shape, scanned, agentCalls, stream, exitCode,
                   templateExists, templateLoaded, handled, stdout, request, logger,
                   templateVars, harnessVars>>

\* sys.exit(Hook().run()): the response, if any, is written as one JSON
\* object; 2 for a deny, 0 otherwise
Exit ==
    /\ pc = "done"
    /\ stdout' = IF response = None THEN stdout ELSE Append(stdout, response)
    /\ exitCode' = IF response # None /\ response.kind = "deny" THEN 2 ELSE 0
    /\ pc' = "exited"
    /\ UNCHANGED <<hook, event, shape, response, scanned, agentCalls, agentError, stream,
                   templateExists, templateLoaded, handled, request, logger, log,
                   templateVars, harnessVars>>

\* an exception that left the handler ends the process: nothing is written
\* and the status is that of an uncaught exception
Crash ==
    /\ pc = "failed"
    /\ exitCode' = 1
    /\ pc' = "exited"
    /\ UNCHANGED <<hook, event, shape, response, scanned, agentCalls, agentError, stream,
                   templateExists, templateLoaded, handled, stdout, request, logger, log,
                   templateVars, harnessVars>>

Next ==
    \/ ControllerStructureValidator_Run
    \/ FormRequestBlocker_Run
    \/ ControllerServiceLayerReminder_Run
    \/ VueScriptValidator_Run
    \/ AgentYield
    \/ AgentStop
    \/ AgentRaise
    \/ E2EPathValidator_Run
    \/ E2E_AgentYield
    \/ E2E_AgentStop
    \/ E2E_AgentRaise
    \/ Exit
    \/ Crash

Spec == Init /\ [][Next]_vars

(***************************************************************************)
(* Hook processes that share a log file.  The other processes are seen     *)
(* through the only thing they share with this one: the lines they append. *)
(***************************************************************************)
\* the most lines the other processes append while this one runs
MaxOtherLines == 1

\* a line appended by another hook process
OtherLine == LogLine("other", "Blocked: artisan make:request command")

\* the events followed under logging: for each hook, events on both sides of
\* its filters
LogInputsOf(h) ==
    {in \in InputsOf(h) :
        \/ /\ in.event.hook_event_name = "PreToolUse"
           /\ in.event.tool_name \in {"Write", "Bash"}
           /\ in.event.tool_input \in
               {[file_path |-> <<"a","p","p","/","H","t","t","p","/","C","o","n","t","r","o","l","l","e","r","s","/","U","s","e","r","C","o","n","t","r","o","l","l","e","r",".","p","h","p">>, content |-> CSV_Content],
                [file_path |-> <<"a","p","p","/","H","t","t","p","/","C","o","n","t","r","o","l","l","e","r","s","/","U","s","e","r","s","/","U","s","e","r","C","o","n","t","r","o","l","l","e","r",".","p","h","p">>, content |-> CSV_Content],
                [command |-> <<"p","h","p"," ","a","r","t","i","s","a","n"," ","m","a","k","e",":","r","e","q","u","e","s","t"," ","S","t","o","r","e","U","s","e","r","R","e","q","u","e","s","t">>],
                [command |-> <<"l","s"," ","-","l","a">>],
                [command |-> JsonNull],
                [file_path |-> <<"a","p","p","/","M","y","R","e","q","u","e","s","t",".","p","h","p">>, content |-> <<"<","?","p","h","p","\n","c","l","a","s","s"," ","M","y","R","e","q","u","e","s","t"," ","e","x","t","e","n","d","s"," ","F","o","r","m","R","e","q","u","e","s","t"," ","{","}">>],
                [file_path |-> <<"C","o","m","p","o","n","e","n","t",".","v","u","e">>, content |-> Vue_Render("setup_lang")],
                [file_path |-> <<"C","o","m","p","o","n","e","n","t",".","v","u","e">>, content |-> Vue_Render("bare")],
                [file_path |-> <<"e","2","e","/","t","e","s","t","s","/","r","o","u","t","e","s","/","a","p","p","/","u","s","e","r","s","/","i","n","d","e","x","/","s","m","o","k","e",".","s","p","e","c",".","t","s">>, content |-> <<"t","e","s","t"," ","c","o","n","t","e","n","t">>],
                [file_path |-> <<"t","e","s","t","s","/","F","e","a","t","u","r","e","/","U","s","e","r","T","e","s","t",".","p","h","p">>, content |-> <<"t","e","s","t"," ","c","o","n","t","e","n","t">>]}
        \/ /\ in.shape.kind = "controller"
           /\ in.shape.form = "plain" /\ in.shape.call = "save"
           /\ in.event.tool_name = "Write"
           /\ DOMAIN in.event.tool_input = {"file_path", "content"}
           /\ in.event.tool_input.file_path = CSLR_GoodPath}

LogInit ==
    /\ hook \in Hooks
    /\ \E in \in LogInputsOf(hook) : event = in.event /\ shape = in.shape
    /\ pc = "start"
    /\ response = None
    /\ scanned = FALSE
    /\ agentCalls = 0
    /\ agentError = FALSE
    /\ stream = <<>>
    /\ exitCode = -1
    /\ templateExists \in (IF hook = "E2EPathValidator" THEN BOOLEAN ELSE {TRUE})
    /\ templateLoaded = FALSE
    /\ handled = <<>>
    /\ stdout = <<>>
    /\ request = None
    /\ logger \in BOOLEAN
    /\ log = <<>>
    /\ NoTemplate
    /\ NoHarness

\* another hook process appends a line while this one's handler runs
OtherInvocationLogs ==
    /\ pc \in {"start", "query", "e2e_query"}
    /\ Cardinality({k \in 1..Len(log) : log[k].pid = "other"}) < MaxOtherLines
    /\ log' = Append(log, OtherLine)
    /\ UNCHANGED <<hook, event, shape, pc, response, scanned, agentCalls, agentError, stream, exitCode,
                   templateExists, templateLoaded, handled, stdout, request, logger,
                   templateVars, harnessVars>>

LogNext ==
    \/ Next
    \/ OtherInvocationLogs

LogSpec == LogInit /\ [][LogNext]_vars

(***************************************************************************)
(* One E2EPathValidator object and its prompt template.  The object is     *)
(* followed through several validations so that the cache is seen at work. *)
(***************************************************************************)
\* the most validations followed on one object
MaxValidations == 3

\* the literal placeholder of prompt.md
Placeholder == <<"{","f","i","l","e","_","p","a","t","h","}">>

\* texts prompt.md may hold: the placeholder once, twice, never, cut short,
\* inside braces, and the empty file
TemplateTexts ==
    {<<"C","h","e","c","k"," ","{","f","i","l","e","_","p","a","t","h","}",".">>, <<"{","f","i","l","e","_","p","a","t","h","}"," ","o","r"," ","{","f","i","l","e","_","p","a","t","h","}">>, <<"N","o"," ","p","a","t","h">>, <<"I","s"," ","{","f","i","l","e","_","p","a","t","h"," ","o","k">>, <<"{","{","f","i","l","e","_","p","a","t","h","}","}">>, <<>>}

\* candidate paths; the second carries the placeholder's own text
TemplatePaths == {<<"e","2","e","/","t","e","s","t","s","/","a",".","s","p","e","c",".","t","s">>, <<"e","2","e","/","t","e","s","t","s","/","{","f","i","l","e","_","p","a","t","h","}",".","s","p","e","c",".","t","s">>}

\* str.replace(old, new) from position k on: every occurrence, left to right
RECURSIVE ReplaceFrom(_, _, _, _)
ReplaceFrom(s, old, new, k) ==
    IF k > Len(s) THEN <<>>
    ELSE IF StartsAt(s, old, k) THEN new \o ReplaceFrom(s, old, new, k + Len(old))
    ELSE <<s[k]>> \o ReplaceFrom(s, old, new, k + 1)

\* str.replace(old, new)
Replace(s, old, new) == ReplaceFrom(s, old, new, 1)

\* variant: prompt.md is read on every access
TemplateProperty_Uncached(cached, file) ==
    IF file = None THEN [raised |-> TRUE, value |-> <<>>, cached |-> cached, read |-> 0]
    ELSE [raised |-> FALSE, value |-> file, cached |-> file, read |-> 1]

\* the template property: what it returns or that it raises, what it leaves
\* in self._template, and how often it read the file
TemplateProperty(cached, file) ==
    IF cached = None
    THEN IF file = None THEN [raised |-> TRUE, value |-> <<>>, cached |-> cached, read |-> 0]
         ELSE [raised |-> FALSE, value |-> file, cached |-> file, read |-> 1]
    ELSE [raised |-> FALSE, value |-> cached, cached |-> cached, read |-> 0]

\* a hook object of E2EPathValidator that has handled nothing yet
TemplateInit ==
    /\ hook = "E2EPathValidator"
    /\ event = Event("PreToolUse", "Write",
                     [file_path |-> <<"e","2","e","/","t","e","s","t","s","/","r","o","u","t","e","s","/","a","p","p","/","u","s","e","r","s","/","i","n","d","e","x","/","s","m","o","k","e",".","s","p","e","c",".","t","s">>, content |-> <<"t","e","s","t"," ","c","o","n","t","e","n","t">>])
    /\ shape = Plain(event).shape
    /\ pc = "start"
    /\ response = None
    /\ scanned = FALSE
    /\ agentCalls = 0
    /\ agentError = FALSE
    /\ stream = <<>>
    /\ exitCode = -1
    /\ templateExists = TRUE
    /\ templateLoaded = FALSE
    /\ handled = <<>>
    /\ stdout = <<>>
    /\ request = None
    /\ logger = FALSE
    /\ log = <<>>
    /\ template = None
    /\ \/ promptFile = None
       \/ promptFile \in TemplateTexts
    /\ reads = 0
    /\ prompts = <<>>
    /\ NoHarness

\* _validate_with_agent(file_path) up to the prompt:
\* prompt = self.template.replace("{file_path}", file_path)
ValidateWithAgent ==
    /\ Len(prompts) < MaxValidations
    /\ \E file_path \in TemplatePaths :
          LET got == TemplateProperty(template, promptFile)
          IN  /\ template' = got.cached
              /\ reads' = reads + got.read
              /\ prompts' = Append(prompts,
                                   [file_path |-> file_path, raised |-> got.raised, template |-> got.value,
                                    prompt |-> IF got.raised THEN <<>>
                                               ELSE Replace(got.value, Placeholder, file_path)])
    /\ UNCHANGED <<promptFile, hookVars, harnessVars>>

\* prompt.md is rewritten while the process runs
PromptFileWritten ==
    /\ \E text \in TemplateTexts : text # promptFile /\ promptFile' = text
    /\ UNCHANGED <<template, reads, prompts, hookVars, harnessVars>>

\* prompt.md is removed while the process runs
PromptFileRemoved ==
    /\ promptFile # None
    /\ promptFile' = None
    /\ UNCHANGED <<template, reads, prompts, hookVars, harnessVars>>

TemplateNext ==
    \/ ValidateWithAgent
    \/ PromptFileWritten
    \/ PromptFileRemoved

TemplateSpec == TemplateInit /\ [][TemplateNext]_vars

(***************************************************************************)
(* The test harness: run_hook and the assertion helpers.  The hook process *)
(* is taken by its outcome: exit status, standard output, standard error.  *)
(***************************************************************************)
\* the directories under HOOKS_DIR and a name that is none of them
HookNames == Hooks \cup {"NoSuchHook"}

\* exit statuses: success, an uncaught exception, deny, command not found,
\* killed by a signal
ReturnCodes == {0, 1, 2, 127, -9}

\* JSON texts and what json.loads makes of them
JsonDocs ==
    {[text |-> <<"{","\"","h","o","o","k","S","p","e","c","i","f","i","c","O","u","t","p","u","t","\"",":"," ","{","\"","h","o","o","k","E","v","e","n","t","N","a","m","e","\"",":"," ","\"","P","r","e","T","o","o","l","U","s","e","\"",","," ","\"","p","e","r","m","i","s","s","i","o","n","D","e","c","i","s","i","o","n","\"",":"," ","\"","d","e","n","y","\"",","," ","\"","p","e","r","m","i","s","s","i","o","n","D","e","c","i","s","i","o","n","R","e","a","s","o","n","\"",":"," ","\"","F","l","a","t"," ","C","O","N","T","R","O","L","L","E","R"," ","s","t","r","u","c","t","u","r","e","\"","}","}">>,
      value |-> [hookSpecificOutput |-> [hookEventName |-> <<"P","r","e","T","o","o","l","U","s","e">>, permissionDecision |-> <<"d","e","n","y">>,
                                         permissionDecisionReason |-> <<"F","l","a","t"," ","C","O","N","T","R","O","L","L","E","R"," ","s","t","r","u","c","t","u","r","e">>]]],
     [text |-> <<"{","\"","h","o","o","k","S","p","e","c","i","f","i","c","O","u","t","p","u","t","\"",":"," ","{","\"","h","o","o","k","E","v","e","n","t","N","a","m","e","\"",":"," ","\"","P","r","e","T","o","o","l","U","s","e","\"",","," ","\"","p","e","r","m","i","s","s","i","o","n","D","e","c","i","s","i","o","n","\"",":"," ","\"","d","e","n","y","\"","}","}">>,
      value |-> [hookSpecificOutput |-> [hookEventName |-> <<"P","r","e","T","o","o","l","U","s","e">>, permissionDecision |-> <<"d","e","n","y">>]]],
     [text |-> <<"{","\"","h","o","o","k","S","p","e","c","i","f","i","c","O","u","t","p","u","t","\"",":"," ","{","\"","h","o","o","k","E","v","e","n","t","N","a","m","e","\"",":"," ","\"","P","r","e","T","o","o","l","U","s","e","\"",","," ","\"","p","e","r","m","i","s","s","i","o","n","D","e","c","i","s","i","o","n","\"",":"," ","\"","a","l","l","o","w","\"","}","}">>,
      value |-> [hookSpecificOutput |-> [hookEventName |-> <<"P","r","e","T","o","o","l","U","s","e">>, permissionDecision |-> <<"a","l","l","o","w">>]]],
     [text |-> <<"{","\"","h","o","o","k","S","p","e","c","i","f","i","c","O","u","t","p","u","t","\"",":"," ","{","\"","h","o","o","k","E","v","e","n","t","N","a","m","e","\"",":"," ","\"","P","r","e","T","o","o","l","U","s","e","\"",","," ","\"","p","e","r","m","i","s","s","i","o","n","D","e","c","i","s","i","o","n","\"",":"," ","\"","a","s","k","\"","}","}">>,
      value |-> [hookSpecificOutput |-> [hookEventName |-> <<"P","r","e","T","o","o","l","U","s","e">>, permissionDecision |-> <<"a","s","k">>]]],
     [text |-> <<"{","\"","h","o","o","k","S","p","e","c","i","f","i","c","O","u","t","p","u","t","\"",":"," ","{","\"","h","o","o","k","E","v","e","n","t","N","a","m","e","\"",":"," ","\"","P","r","e","T","o","o","l","U","s","e","\"",","," ","\"","p","e","r","m","i","s","s","i","o","n","D","e","c","i","s","i","o","n","\"",":"," ","\"","D","E","N","Y","\"","}","}">>,
      value |-> [hookSpecificOutput |-> [hookEventName |-> <<"P","r","e","T","o","o","l","U","s","e">>, permissionDecision |-> <<"D","E","N","Y">>]]],
     [text |-> <<"{","\"","h","o","o","k","S","p","e","c","i","f","i","c","O","u","t","p","u","t","\"",":"," ","{","\"","h","o","o","k","E","v","e","n","t","N","a","m","e","\"",":"," ","\"","P","r","e","T","o","o","l","U","s","e","\"",","," ","\"","p","e","r","m","i","s","s","i","o","n","D","e","c","i","s","i","o","n","\"",":"," ","n","u","l","l","}","}">>,
      value |-> [hookSpecificOutput |-> [hookEventName |-> <<"P","r","e","T","o","o","l","U","s","e">>, permissionDecision |-> JsonNull]]],
     [text |-> <<"{","\"","h","o","o","k","S","p","e","c","i","f","i","c","O","u","t","p","u","t","\"",":"," ","{","\"","h","o","o","k","E","v","e","n","t","N","a","m","e","\"",":"," ","\"","P","o","s","t","T","o","o","l","U","s","e","\"",","," ","\"","a","d","d","i","t","i","o","n","a","l","C","o","n","t","e","x","t","\"",":"," ","\"","U","s","e"," ","a"," ","s","e","r","v","i","c","e","\"","}","}">>,
      value |-> [hookSpecificOutput |-> [hookEventName |-> <<"P","o","s","t","T","o","o","l","U","s","e">>, additionalContext |-> <<"U","s","e"," ","a"," ","s","e","r","v","i","c","e">>]]],
     [text |-> <<"{","\"","p","e","r","m","i","s","s","i","o","n","D","e","c","i","s","i","o","n","\"",":"," ","\"","d","e","n","y","\"","}">>, value |-> [permissionDecision |-> <<"d","e","n","y">>]],
     [text |-> <<"n","u","l","l">>, value |-> None]}

\* what a hook process may leave on standard output
Stdouts ==
    {doc.text \o <<"\n">> : doc \in JsonDocs}
    \cup {<<>>, <<"\n">>, <<" "," ","\n","\t">>, <<"T","r","a","c","e","b","a","c","k">>, <<"{","\"","h","o","o","k","S","p","e","c","i","f","i","c","O","u","t","p","u","t","\"",":"," ">>, <<"{","\"","p","e","r","m","i","s","s","i","o","n","D","e","c","i","s","i","o","n","\"",":"," ","\"","d","e","n","y","\"","}">>,
          <<" ","\n","{","\"","p","e","r","m","i","s","s","i","o","n","D","e","c","i","s","i","o","n","\"",":"," ","\"","d","e","n","y","\"","}","\n","\n">>}

\* what a hook process may leave on standard error
Stderrs == {<<>>, <<"T","y","p","e","E","r","r","o","r",":"," ","e","x","p","e","c","t","e","d"," ","s","t","r","i","n","g"," ","o","r"," ","b","y","t","e","s","-","l","i","k","e"," ","o","b","j","e","c","t">>}

\* finished hook processes
Processes == [returncode : ReturnCodes, stdout : Stdouts, stderr : Stderrs]

\* json.loads(text)
JsonLoads(text) ==
    IF \E doc \in JsonDocs : doc.text = text
    THEN [raised |-> FALSE, value |-> (CHOOSE doc \in JsonDocs : doc.text = text).value]
    ELSE [raised |-> TRUE, value |-> None]

\* run_hook returns `value`
Returns(value) ==
    [kind |-> "return", value |-> value, error |-> "", returncode |-> 0, stdout |-> <<>>, stderr |-> <<>>]

\* run_hook raises `error`
Raises(error, returncode, out, err) ==
    [kind |-> "raise", value |-> None, error |-> error, returncode |-> returncode, stdout |-> out, stderr |-> err]

\* variant: every exit status is read like a success
run_hook_AnyExit(p) ==
    IF Strip(p.stdout) = <<>> THEN Returns(None)
    ELSE IF JsonLoads(Strip(p.stdout)).raised THEN Raises("JSONDecodeError", 0, <<>>, <<>>)
    ELSE Returns(JsonLoads(Strip(p.stdout)).value)

\* run_hook from the finished process `p` on
run_hook(p) ==
    IF p.returncode # 0 /\ p.returncode # 2
    THEN Raises("CalledProcessError", p.returncode, p.stdout, p.stderr)
    ELSE IF Strip(p.stdout) = <<>> THEN Returns(None)
    ELSE IF JsonLoads(Strip(p.stdout)).raised THEN Raises("JSONDecodeError", 0, <<>>, <<>>)
    ELSE Returns(JsonLoads(Strip(p.stdout)).value)

\* dict.get(key, default)
DictGet(dict, key, default) == IF key \in DOMAIN dict THEN dict[key] ELSE default

\* variant: the reason is compared as it is written
assert_denied_CaseSensitive(result, reason_contains) ==
    /\ result # None
    /\ "hookSpecificOutput" \in DOMAIN result
    /\ DictGet(result["hookSpecificOutput"], "permissionDecision", JsonNull) = <<"d","e","n","y">>
    /\ Truthy(reason_contains) =>
          StrContains(DictGet(result["hookSpecificOutput"], "permissionDecisionReason", <<>>), reason_contains)

\* assert_denied: TRUE when no assertion fails
assert_denied(result, reason_contains) ==
    /\ result # None
    /\ "hookSpecificOutput" \in DOMAIN result
    /\ DictGet(result["hookSpecificOutput"], "permissionDecision", JsonNull) = <<"d","e","n","y">>
    /\ Truthy(reason_contains) =>
          StrContains(Lower(DictGet(result["hookSpecificOutput"], "permissionDecisionReason", <<>>)),
                      Lower(reason_contains))

\* assert_allowed: TRUE when no assertion fails
assert_allowed(result) ==
    \/ result = None
    \/ "hookSpecificOutput" \notin DOMAIN result
    \/ DictGet(result["hookSpecificOutput"], "permissionDecision", JsonNull) \in {<<"a","l","l","o","w">>, JsonNull}

\* substrings a test may ask the reason to contain
ReasonSubstrings == {<<>>, <<"f","l","a","t"," ","c","o","n","t","r","o","l","l","e","r">>, <<"S","t","r","u","c","t","u","r","e">>, <<"s","e","r","v","i","c","e"," ","l","a","y","e","r">>}

\* a test is about to call run_hook
HarnessInit ==
    /\ hook = "ControllerStructureValidator"
    /\ event = Event("PreToolUse", "Write",
                     [file_path |-> <<"a","p","p","/","H","t","t","p","/","C","o","n","t","r","o","l","l","e","r","s","/","U","s","e","r","C","o","n","t","r","o","l","l","e","r",".","p","h","p">>, content |-> CSV_Content])
    /\ shape = Plain(event).shape
    /\ pc = "start"
    /\ response = None
    /\ scanned = FALSE
    /\ agentCalls = 0
    /\ agentError = FALSE
    /\ stream = <<>>
    /\ exitCode = -1
    /\ templateExists = TRUE
    /\ templateLoaded = FALSE
    /\ handled = <<>>
    /\ stdout = <<>>
    /\ request = None
    /\ logger = FALSE
    /\ log = <<>>
    /\ NoTemplate
    /\ hookName \in HookNames
    /\ proc = None
    /\ spawned = 0
    /\ outcome = None
    /\ verdict = None

\* run_hook(hook_name, input_data): the directory test, then the process and
\* what is made of its outcome
RunHook ==
    /\ outcome = None
    /\ IF hookName \notin Hooks
       THEN /\ outcome' = Raises("FileNotFoundError", 0, <<>>, <<>>)
            /\ UNCHANGED <<proc, spawned>>
       ELSE \E p \in Processes :
               /\ proc' = p
               /\ spawned' = spawned + 1
               /\ outcome' = run_hook(p)
    /\ UNCHANGED <<hookName, verdict, hookVars, templateVars>>

\* assert_allowed(result) on what run_hook returned
AssertAllowed ==
    /\ outcome # None /\ outcome.kind = "return"
    /\ verdict = None
    /\ verdict' = [helper |-> "assert_allowed", reason_contains |-> <<>>, given |-> FALSE,
                   passed |-> assert_allowed(outcome.value)]
    /\ UNCHANGED <<hookName, proc, spawned, outcome, hookVars, templateVars>>

\* assert_denied(result) and assert_denied(result, reason_contains)
AssertDenied ==
    /\ outcome # None /\ outcome.kind = "return"
    /\ verdict = None
    /\ \/ verdict' = [helper |-> "assert_denied", reason_contains |-> <<>>, given |-> FALSE,
                      passed |-> assert_denied(outcome.value, None)]
       \/ \E reason_contains \in ReasonSubstrings :
             verdict' = [helper |-> "assert_denied", reason_contains |-> reason_contains, given |-> TRUE,
                         passed |-> assert_denied(outcome.value, reason_contains)]
    /\ UNCHANGED <<hookName, proc, spawned, outcome, hookVars, templateVars>>

HarnessNext ==
    \/ RunHook
    \/ AssertAllowed
    \/ AssertDenied

HarnessSpec == HarnessInit /\ [][HarnessNext]_vars

\* the handler has returned
Decided == pc \in {"done", "exited"}

(***************************************************************************)
(* Properties.  Each is stated from the text of the event itself, not      *)
(* through the patterns above.                                             *)
(***************************************************************************)
IsDeny(r) == r # None /\ r.kind = "deny"
IsAdvisory(r) == r # None /\ r.kind = "context"

IsPre(ev, tool) == ev.hook_event_name = "PreToolUse" /\ ev.tool_name = tool
IsPost(ev, tool) == ev.hook_event_name = "PostToolUse" /\ ev.tool_name = tool

\* the characters s[i .. i+k-1] exist and are all whitespace
SpacesAt(s, i, k) == i + k - 1 <= Len(s) /\ \A j \in i..(i + k - 1) : s[j] \in SpaceChars

\* a, one or more whitespace characters, then b, somewhere in s
ThenAfterSpace(s, a, b) ==
    \E i \in 1..Len(s) :
        /\ StartsAt(s, a, i)
        /\ \E k \in 1..Len(s) :
            /\ SpacesAt(s, i + Len(a), k)
            /\ StartsAt(s, b, i + Len(a) + k)

---------------------------------------------------------------------------
\* the path, with / for \, ends in app/Http/Controllers/<filename> where the
\* filename holds no separator, ends in .php and contains Controller.php
FlatControllerPath(path) ==
    LET n == ReplaceChar(path, "\\", "/")
    IN  \E i \in 1..Len(n) :
            /\ StartsAt(n, <<"a","p","p","/","H","t","t","p","/","C","o","n","t","r","o","l","l","e","r","s","/">>, i)
            /\ LET filename == SubSeq(n, i + Len(<<"a","p","p","/","H","t","t","p","/","C","o","n","t","r","o","l","l","e","r","s","/">>), Len(n))
               IN  /\ \A k \in 1..Len(filename) : filename[k] # "/"
                   /\ EndsWith(filename, <<".","p","h","p">>)
                   /\ StrContains(filename, <<"C","o","n","t","r","o","l","l","e","r",".","p","h","p">>)

C2_EditNeverDenied ==
    (hook = "ControllerStructureValidator" /\ Decided) =>
        /\ event.tool_name = "Edit" => ~IsDeny(response)
        /\ event.tool_name \notin {"Write", "Edit"} => response = None

C2_Witness ==
    /\ hook = "ControllerStructureValidator" /\ pc = "done" /\ IsPre(event, "Edit")
    /\ OrEmpty(FilePath(event)) = <<"a","p","p","/","H","t","t","p","/","C","o","n","t","r","o","l","l","e","r","s","/","U","s","e","r","C","o","n","t","r","o","l","l","e","r",".","p","h","p">>
    /\ response = None

---------------------------------------------------------------------------
\* the command of a Bash event, "" when the key is missing
CommandOf(ev) == OrEmpty(Get(ev.tool_input, "command"))

\* C3: on a PreToolUse Bash event FormRequestBlocker denies exactly when the
\* command holds artisan, one or more whitespace characters and make:request,
\* in any letter case, anywhere; every other command gets no opinion.
C3_ArtisanMakeRequestDenied ==
    (hook = "FormRequestBlocker" /\ Decided /\ IsPre(event, "Bash")) =>
        IF ThenAfterSpace(Lower(CommandOf(event)), <<"a","r","t","i","s","a","n">>, <<"m","a","k","e",":","r","e","q","u","e","s","t">>)
        THEN IsDeny(response)
        ELSE response = None

C3_Witness ==
    /\ hook = "FormRequestBlocker" /\ pc = "done" /\ IsPre(event, "Bash")
    /\ CommandOf(event) = <<"/","u","s","r","/","b","i","n","/","p","h","p"," ","A","R","T","I","S","A","N","\t","M","a","k","e",":","R","e","q","u","e","s","t"," ","S","t","o","r","e","U","s","e","r","R","e","q","u","e","s","t">>
    /\ IsDeny(response)

\* the path has the segments Http/Requests and, after them, a last segment
\* ending in .php (the glob **/Http/Requests/**/*.php)
UnderHttpRequests(path) ==
    LET segs == SplitBy(path, "/")
    IN  /\ EndsWith(segs[Len(segs)], <<".","p","h","p">>)
        /\ \E k \in 1..(Len(segs) - 2) : segs[k] = <<"H","t","t","p">> /\ segs[k + 1] = <<"R","e","q","u","e","s","t","s">>

\* use, whitespace, Illuminate\, then \FormRequest later on the same line
ImportsIlluminateFormRequest(content) ==
    \E i \in 1..Len(content) :
        /\ StartsAt(content, <<"u","s","e">>, i)
        /\ \E k \in 1..Len(content) :
            /\ SpacesAt(content, i + 3, k)
            /\ StartsAt(content, <<"I","l","l","u","m","i","n","a","t","e","\\">>, i + 3 + k)
            /\ \E j \in (i + 3 + k + Len(<<"I","l","l","u","m","i","n","a","t","e","\\">>))..Len(content) :
                /\ StartsAt(content, <<"\\","F","o","r","m","R","e","q","u","e","s","t">>, j)
                /\ \A m \in (i + 3 + k)..j : content[m] # "\n"

\* C4: on a PreToolUse Write FormRequestBlocker denies exactly when the path
\* matches **/Http/Requests/**/*.php, or the content has `extends FormRequest`
\* (extends, whitespace, FormRequest; case-sensitive), or the content imports
\* `use Illuminate\...\FormRequest` (case-sensitive); otherwise no opinion.
C4_WriteDeniedIffAnyCheck ==
    (hook = "FormRequestBlocker" /\ Decided /\ IsPre(event, "Write")) =>
        IF \/ UnderHttpRequests(OrEmpty(FilePath(event)))
           \/ ThenAfterSpace(OrEmpty(Content(event)), <<"e","x","t","e","n","d","s">>, <<"F","o","r","m","R","e","q","u","e","s","t">>)
           \/ ImportsIlluminateFormRequest(OrEmpty(Content(event)))
        THEN IsDeny(response)
        ELSE response = None

C4_Witness ==
    /\ hook = "FormRequestBlocker" /\ pc = "done" /\ IsPre(event, "Write")
    /\ OrEmpty(FilePath(event)) = <<"a","p","p","/","M","y","R","e","q","u","e","s","t",".","p","h","p">>
    /\ OrEmpty(Content(event)) = <<"<","?","p","h","p","\n","u","s","e"," ","I","l","l","u","m","i","n","a","t","e","\\","F","o","u","n","d","a","t","i","o","n","\\","H","t","t","p","\\","F","o","r","m","R","e","q","u","e","s","t",";","\n","c","l","a","s","s"," ","M","y","R","e","q","u","e","s","t"," ","{","}">>
    /\ IsDeny(response)

\* C5 (as claimed): FormRequestBlocker allows every Write whose path is not a
\* PHP file, whatever its content, and every Write whose content mentions
\* FormRequest only in prose (read here as: and whose path is outside
\* Http/Requests, since the path check is not about the content).
C5_NonPhpAndProseAllowed ==
    (hook = "FormRequestBlocker" /\ Decided /\ IsPre(event, "Write")) =>
        /\ (Truthy(FilePath(event)) /\ ~EndsWith(FilePath(event), <<".","p","h","p">>)) => ~IsDeny(response)
        /\ (/\ StrContains(OrEmpty(Content(event)), <<"F","o","r","m","R","e","q","u","e","s","t">>)
            /\ ~ThenAfterSpace(OrEmpty(Content(event)), <<"e","x","t","e","n","d","s">>, <<"F","o","r","m","R","e","q","u","e","s","t">>)
            /\ ~ImportsIlluminateFormRequest(OrEmpty(Content(event)))
            /\ ~UnderHttpRequests(OrEmpty(FilePath(event))))
           => ~IsDeny(response)

---------------------------------------------------------------------------
\* the event is a PostToolUse Write of a controller file outside the tests
ControllerWrite(ev) ==
    /\ IsPost(ev, "Write")
    /\ FilePath(ev) # None
    /\ StrContains(FilePath(ev), <<"C","o","n","t","r","o","l","l","e","r","s","/">>) /\ EndsWith(FilePath(ev), <<".","p","h","p">>)
    /\ ~StrContains(Lower(FilePath(ev)), <<"/","t","e","s","t","s","/">>) /\ ~StartsWith(Lower(FilePath(ev)), <<"t","e","s","t","s","/">>)

\* the content is a controller whose store, update or destroy method holds one
\* of the eight mutation calls in its body, the method laid out in one of `forms`
MutationInMethodBody(forms) ==
    /\ shape.kind = "controller"
    /\ OrEmpty(Content(event)) = CSLR_Render(shape.method, shape.call, shape.form)
    /\ shape.method \in {<<"s","t","o","r","e">>, <<"u","p","d","a","t","e">>, <<"d","e","s","t","r","o","y">>}
    /\ shape.call \in CSLR_MutationCalls
    /\ shape.form \in forms

C7_FilteredEventsNotScanned ==
    (/\ hook = "ControllerServiceLayerReminder" /\ Decided
     /\ event.hook_event_name = "PostToolUse"
     /\ \/ event.tool_name # "Write"
        \/ FilePath(event) = None
        \/ ~StrContains(FilePath(event), <<"C","o","n","t","r","o","l","l","e","r","s","/">>)
        \/ ~EndsWith(FilePath(event), <<".","p","h","p">>)
        \/ StrContains(Lower(FilePath(event)), <<"/","t","e","s","t","s","/">>)
        \/ StartsWith(Lower(FilePath(event)), <<"t","e","s","t","s","/">>)
        \/ Content(event) = None
        \/ Content(event) = <<>>) =>
        response = None /\ ~scanned

C7_Witness ==
    /\ hook = "ControllerServiceLayerReminder" /\ pc = "done" /\ IsPost(event, "Write")
    /\ OrEmpty(FilePath(event)) = <<"a","p","p","/","T","E","S","T","S","/","C","o","n","t","r","o","l","l","e","r","s","/","U","s","e","r","C","o","n","t","r","o","l","l","e","r",".","p","h","p">>
    /\ OrEmpty(Content(event)) = CSLR_Render(<<"s","t","o","r","e">>, "save", "plain")
    /\ response = None /\ ~scanned

\* C8: the reminder hook never blocks: its outcome is no opinion or an
\* advisory carrying the fixed reminder message, never a deny, and the
\* process never exits with the deny code.
C8_ReminderNeverBlocks ==
    hook = "ControllerServiceLayerReminder" =>
        /\ \/ response = None
           \/ IsAdvisory(response) /\ response.context = REMINDER_MESSAGE
        /\ exitCode \in {-1, 0}

C8_Witness ==
    /\ hook = "ControllerServiceLayerReminder" /\ pc = "exited"
    /\ IsAdvisory(response) /\ exitCode = 0
    /\ shape.kind = "controller" /\ shape.call = "delete"

---------------------------------------------------------------------------
\* the event is a PreToolUse Write of a .vue file with content
VueWrite(ev) ==
    /\ IsPre(ev, "Write")
    /\ FilePath(ev) # None /\ EndsWith(FilePath(ev), <<".","v","u","e">>)
    /\ Content(ev) # None /\ Content(ev) # <<>>

\* the content is a component whose script tag is one of `tags`
ScriptTagIn(tags) ==
    /\ shape.kind = "component"
    /\ OrEmpty(Content(event)) = Vue_Render(shape.tag)
    /\ shape.tag \in tags

\* C9: a Write of a .vue file whose content has <script setup lang="ts"> or
\* <script lang="ts" setup> (either order, further attributes allowed) is
\* allowed at once: the delegate is never asked.
C9_ValidTagAllowedAtOnce ==
    (hook = "VueScriptValidator" /\ VueWrite(event) /\ ScriptTagIn(Vue_ValidTags)) =>
        /\ pc # "query" /\ agentCalls = 0 /\ stream = <<>> /\ ~agentError
        /\ Decided => response = Allow

C9_Witness ==
    /\ hook = "VueScriptValidator" /\ pc = "done" /\ VueWrite(event)
    /\ ScriptTagIn({"lang_setup"})
    /\ response = Allow /\ agentCalls = 0

\* a decision tag with word w starts at position i of the lower-cased text
DecisionTagAt(text, w, i) ==
    /\ StartsAt(text, <<"<","d","e","c","i","s","i","o","n",">">>, i)
    /\ \E a \in 0..Len(text) :
        /\ SpacesAt(text, i + 10, a)
        /\ StartsAt(text, w, i + 10 + a)
        /\ \E b \in 0..Len(text) :
            /\ SpacesAt(text, i + 10 + a + Len(w), b)
            /\ StartsAt(text, <<"<","/","d","e","c","i","s","i","o","n",">">>, i + 10 + a + Len(w) + b)

\* the first decision tag of the delegate's text says block
FirstDecisionIsBlock(text) ==
    LET lowered == Lower(text)
    IN  \E i \in 1..Len(text) :
            /\ DecisionTagAt(lowered, <<"b","l","o","c","k">>, i)
            /\ \A j \in 1..i : ~DecisionTagAt(lowered, <<"a","l","l","o","w">>, j)

---------------------------------------------------------------------------
\* the text holds no <decision>allow|block</decision> tag, in any letter case
NoDecisionTag(text) ==
    LET lowered == Lower(text)
    IN  \A i \in 1..Len(text) :
            ~DecisionTagAt(lowered, <<"a","l","l","o","w">>, i) /\ ~DecisionTagAt(lowered, <<"b","l","o","c","k">>, i)

\* the text holds a decision tag whose value is block
HasBlockTag(text) ==
    LET lowered == Lower(text)
    IN  \E i \in 1..Len(text) : DecisionTagAt(lowered, <<"b","l","o","c","k">>, i)

\* C11: VueScriptValidator fails open.  Once the delegate has been asked, a
\* call that raises gives allow, and so does a text without a decision tag,
\* the word BLOCK in it or not; a deny comes only from a call that did not
\* raise and a text holding a decision tag whose value is block.
C11_VueFailsOpen ==
    (hook = "VueScriptValidator" /\ Decided /\ agentCalls = 1) =>
        /\ agentError => response = Allow
        /\ NoDecisionTag(ResponseText(stream)) => response = Allow
        /\ IsDeny(response) => ~agentError /\ HasBlockTag(ResponseText(stream))

C11_Witness ==
    /\ hook = "VueScriptValidator" /\ pc = "done" /\ agentCalls = 1 /\ ~agentError
    /\ Len(stream) = 1
    /\ StrContains(ResponseText(stream), <<"B","L","O","C","K">>)
    /\ NoDecisionTag(ResponseText(stream))
    /\ response = Allow

\* C12 (as claimed): VueScriptValidator has no opinion, and does not ask the
\* delegate, on every event that is not a PreToolUse Write of a .vue path
\* with non-empty content; a tool other than Write is ignored even when its
\* input names a .vue file.
C12_OnlyVueWritesExamined ==
    (hook = "VueScriptValidator" /\ ~VueWrite(event)) =>
        /\ pc # "query" /\ agentCalls = 0
        /\ Decided => response = None

---------------------------------------------------------------------------
\* the event is a PreToolUse Write whose path contains e2e/tests/ and ends in
\* .spec.ts
E2EWrite(ev) ==
    /\ IsPre(ev, "Write")
    /\ Truthy(FilePath(ev))
    /\ StrContains(FilePath(ev), <<"e","2","e","/","t","e","s","t","s","/">>) /\ EndsWith(FilePath(ev), <<".","s","p","e","c",".","t","s">>)

\* C13: E2EPathValidator has no opinion, and neither reads the prompt template
\* nor asks the delegate, when the tool is not Write (an event without a tool
\* name included) and when the path of a Write is empty, missing, without
\* e2e/tests/ in it, or not ending in .spec.ts.
C13_NonMatchingIgnored ==
    (/\ hook = "E2EPathValidator"
     /\ \/ event.tool_name # "Write"
        \/ ~Truthy(FilePath(event))
        \/ ~StrContains(FilePath(event), <<"e","2","e","/","t","e","s","t","s","/">>)
        \/ ~EndsWith(FilePath(event), <<".","s","p","e","c",".","t","s">>)) =>
        /\ response = None
        /\ ~templateLoaded /\ agentCalls = 0 /\ stream = <<>>
        /\ pc \in {"start", "done", "exited"}

C13_Witness ==
    /\ hook = "E2EPathValidator" /\ pc = "done"
    /\ event.hook_event_name = "PreToolUse" /\ event.tool_name = ""
    /\ OrEmpty(FilePath(event)) = <<"e","2","e","/","t","e","s","t","s","/","r","o","u","t","e","s","/","a","p","p","/","u","s","e","r","s","/","i","n","d","e","x","/","s","m","o","k","e",".","s","p","e","c",".","t","s">>
    /\ templateExists
    /\ response = None /\ ~templateLoaded /\ agentCalls = 0

\* C14: E2EPathValidator never blocks because of its own failure: when the
\* delegate call of a matching Write raises, whatever the delegate had sent
\* before, the exception is caught, the outcome is no opinion, nothing is
\* written and the process ends with status 0.
C14_DelegateFailureAllows ==
    (hook = "E2EPathValidator" /\ agentError) =>
        /\ E2EWrite(event)
        /\ pc \in {"done", "exited"}
        /\ response = None
        /\ stdout = <<>>
        /\ pc = "exited" => exitCode = 0

C14_Witness ==
    /\ hook = "E2EPathValidator" /\ pc = "exited" /\ agentError
    /\ E2EWrite(event)
    /\ Len(stream) = 1 /\ HasBlockTag(ResponseText(stream))
    /\ response = None /\ exitCode = 0

\* C15 (as claimed): with the prompt template file absent, a matching Write
\* ends in a hard failure at the first use of the template, not in a
\* fail-open allow.
C15_MissingTemplateIsFatal ==
    (hook = "E2EPathValidator" /\ E2EWrite(event) /\ ~templateExists /\ pc # "start") =>
        /\ pc \in {"failed", "exited"}
        /\ pc = "exited" => exitCode \notin {0, 2}

---------------------------------------------------------------------------
\* the first decision tag of the delegate's text says allow
FirstDecisionIsAllow(text) ==
    LET lowered == Lower(text)
    IN  \E i \in 1..Len(text) :
            /\ DecisionTagAt(lowered, <<"a","l","l","o","w">>, i)
            /\ \A j \in 1..i : ~DecisionTagAt(lowered, <<"b","l","o","c","k">>, j)

\* what stands between the first <reason> that has a </reason> after it and
\* the nearest such </reason>, trimmed; `default` without such a pair or when
\* nothing but whitespace stands between them
ReasonOrDefault(text, default) ==
    LET lowered == Lower(text)
        closes == {j \in 1..Len(text) : StartsAt(lowered, <<"<","/","r","e","a","s","o","n",">">>, j)}
        opens == {i \in 1..Len(text) :
                    StartsAt(lowered, <<"<","r","e","a","s","o","n",">">>, i) /\ \E j \in closes : j >= i + 8}
    IN  IF opens = {} THEN default
        ELSE LET i == Min(opens)
                 j == Min({c \in closes : c >= i + 8})
                 trimmed == Strip(SubSeq(text, i + 8, j - 1))
             IN  IF trimmed = <<>> THEN default ELSE trimmed

\* the hook asked the delegate and the call came back without raising
Answered(h) == hook = h /\ Decided /\ agentCalls = 1 /\ ~agentError

\* C16: both hooks that ask the delegate read its joined text for a
\* <decision>allow|block</decision> tag in any letter case, the first one
\* deciding.  On allow the Write is allowed (VueScriptValidator: an explicit
\* allow; E2EPathValidator: no opinion).  On block it is denied, the reason
\* being the trimmed content of the <reason> tag when there is one and it is
\* not blank, and the hook's default message otherwise.
C16_DecisionTagDecides ==
    /\ Answered("VueScriptValidator") =>
        /\ FirstDecisionIsAllow(ResponseText(stream)) => response = Allow
        /\ FirstDecisionIsBlock(ResponseText(stream)) =>
              /\ IsDeny(response)
              /\ response.reason = ReasonOrDefault(ResponseText(stream), VUE_DEFAULT_REASON)
    /\ Answered("E2EPathValidator") =>
        /\ FirstDecisionIsAllow(ResponseText(stream)) => response = None
        /\ FirstDecisionIsBlock(ResponseText(stream)) =>
              /\ IsDeny(response)
              /\ response.reason = ReasonOrDefault(ResponseText(stream), E2E_DEFAULT_REASON)

C16_Witness ==
    /\ Answered("E2EPathValidator") /\ pc = "done"
    /\ Len(stream) = 2
    /\ FirstDecisionIsBlock(ResponseText(stream))
    /\ StrContains(Lower(ResponseText(stream)), <<"<","d","e","c","i","s","i","o","n",">","a","l","l","o","w","<","/","d","e","c","i","s","i","o","n",">">>)
    /\ IsDeny(response) /\ response.reason = <<"N","o"," ","s","u","c","h"," ","r","o","u","t","e">>

\* C17 (as claimed): in E2EPathValidator, a text without a decision tag is
\* denied, the reason being its first 500 characters, when it contains the
\* literal word BLOCK (also next to ALLOW), and allowed otherwise.
C17_LiteralBlockDenies ==
    (Answered("E2EPathValidator") /\ NoDecisionTag(ResponseText(stream))) =>
        IF StrContains(ResponseText(stream), <<"B","L","O","C","K">>)
        THEN /\ IsDeny(response)
             /\ response.reason = SubSeq(ResponseText(stream), 1,
                                         Min({Len(ResponseText(stream)), TruncateAt}))
        ELSE response = None

\* C17 (amended): the same, the word being looked for in any letter case and
\* anywhere, inside another word too; a text of nothing but whitespace is
\* allowed.
C17_AnyCaseBlockDenies ==
    (Answered("E2EPathValidator") /\ NoDecisionTag(ResponseText(stream))) =>
        IF StrContains(Lower(ResponseText(stream)), <<"b","l","o","c","k">>)
        THEN /\ IsDeny(response)
             /\ response.reason = SubSeq(ResponseText(stream), 1,
                                         Min({Len(ResponseText(stream)), TruncateAt}))
        ELSE response = None

C17_Witness ==
    /\ Answered("E2EPathValidator") /\ pc = "done"
    /\ NoDecisionTag(ResponseText(stream))
    /\ Len(ResponseText(stream)) > TruncateAt
    /\ IsDeny(response) /\ Len(response.reason) = TruncateAt

---------------------------------------------------------------------------
\* C18: in every hook a deny carries a non-empty reason and an advisory a
\* non-empty context, in the handler's return value and in what is written
\* to standard output.
C18_DenyAndAdvisoryCarryText ==
    /\ IsDeny(response) => response.reason # <<>>
    /\ IsAdvisory(response) => response.context # <<>>
    /\ \A k \in 1..Len(stdout) :
        /\ IsDeny(stdout[k]) => stdout[k].reason # <<>>
        /\ IsAdvisory(stdout[k]) => stdout[k].context # <<>>

C18_Witness ==
    /\ Answered("E2EPathValidator") /\ pc = "exited"
    /\ FirstDecisionIsBlock(ResponseText(stream))
    /\ StrContains(Lower(ResponseText(stream)), <<"<","r","e","a","s","o","n",">"," ","<","/","r","e","a","s","o","n",">">>)
    /\ Len(stdout) = 1 /\ IsDeny(stdout[1]) /\ stdout[1].reason = E2E_DEFAULT_REASON

---------------------------------------------------------------------------
\* the tool input has no `key`, or has the empty string under it
Absent(ev, key) == key \notin DOMAIN ev.tool_input \/ ev.tool_input[key] = <<>>

\* the fields an event of the tool carries when it is complete
FieldsOf(tool) ==
    CASE tool = "Write" -> {"file_path", "content"}
      [] tool = "Bash" -> {"command"}
      [] OTHER -> {"file_path"}

\* the event lacks one of its fields, or carries it empty
MissingInput(ev) == \E key \in FieldsOf(ev.tool_name) : Absent(ev, key)

---------------------------------------------------------------------------
\* the tool names a hook acts on
ToolsOf(h) ==
    CASE h = "ControllerStructureValidator" -> {"Write", "Edit"}
      [] h = "FormRequestBlocker" -> {"Bash", "Write"}
      [] OTHER -> {"Write"}

\* C20 (as claimed): one run of a hook invokes exactly one handler, the one
\* of the event's name; writes at most one JSON object to standard output;
\* exits with 0 for allow, advisory and no opinion, with 2 for a deny, and
\* with another status only after an unexpected failure; and for a tool name
\* the hook does not know writes nothing and exits with 0.
C20_OneHandlerOneOutput ==
    /\ Len(handled) <= 1 /\ Len(stdout) <= 1
    /\ (pc # "start" /\ event.hook_event_name = "PreToolUse") => handled = <<"pre_tool_use">>
    /\ (pc # "start" /\ event.hook_event_name = "PostToolUse") => handled = <<"post_tool_use">>
    /\ pc = "exited" =>
        /\ exitCode \in {0, 1, 2}
        /\ exitCode = 2 <=> IsDeny(response)
        /\ exitCode = 2 => stdout = <<response>>
        /\ exitCode = 1 => stdout = <<>> /\ event.tool_input = [command |-> JsonNull]
        /\ event.tool_name \notin ToolsOf(hook) => stdout = <<>> /\ exitCode = 0

---------------------------------------------------------------------------
\* opening braces less closing braces among content[from..to]
DepthOver(content, from, to) ==
    Cardinality({j \in from..to : content[j] = "{"}) - Cardinality({j \in from..to : content[j] = "}"})

\* forms whose declaration is `public function <name>(...)`, with no `)` in
\* the parameter list and a simple return type or none
CSLR_DeclaredForms == CSLR_SimpleForms \cup {"strbrace", "after", "unclosed", "leak"}

\* the position of the opening brace of the declaration of `method_name` in
\* the controller of the state: the first brace after the first occurrence of
\* the name; 0 when the controller declares no such method in a simple form
OpeningBrace(content, method_name) ==
    IF shape.method = method_name /\ shape.form \in CSLR_DeclaredForms
    THEN LET at == Min({i \in 1..Len(content) : StartsAt(content, method_name, i)})
         IN  Min({j \in at..Len(content) : content[j] = "{"})
    ELSE 0

\* the controller of the state has been scanned by the reminder hook
ControllerScanned ==
    /\ hook = "ControllerServiceLayerReminder" /\ Decided /\ scanned
    /\ shape.kind = "controller"
    /\ OrEmpty(Content(event)) = CSLR_Render(shape.method, shape.call, shape.form)

\* C23: the body extracted for store, update and destroy starts at the opening
\* brace of the method's declaration and ends at the first position where the
\* depth, 1 at that brace, +1 on `{` and -1 on `}`, is 0; it is brace-balanced;
\* a method that is not declared, or whose depth never reaches 0, has no body,
\* and a controller with no body at all gets no opinion.
C23_BodyEndsWhereDepthIsZero ==
    ControllerScanned =>
        LET content == Content(event)
        IN  /\ \A k \in 1..Len(MUTATION_METHODS) :
                 LET body == ExtractMethodBody(content, MUTATION_METHODS[k])
                     open == OpeningBrace(content, MUTATION_METHODS[k])
                     closes == IF open = 0 THEN {}
                               ELSE {n \in open..Len(content) : DepthOver(content, open, n) = 0}
                 IN  IF closes = {}
                     THEN body = None
                     ELSE /\ OrEmpty(body) = SubSeq(content, open, Min(closes))
                          /\ Head(body) = "{" /\ body[Len(body)] = "}"
                          /\ DepthOver(body, 1, Len(body)) = 0
                          /\ \A n \in 1..(Len(body) - 1) : DepthOver(body, 1, n) > 0
            /\ (\A k \in 1..Len(MUTATION_METHODS) :
                    ExtractMethodBody(content, MUTATION_METHODS[k]) = None) => response = None

C23_Witness ==
    /\ ControllerScanned /\ pc = "done"
    /\ shape.method = <<"u","p","d","a","t","e">> /\ shape.form = "nested" /\ shape.call = "service"
    /\ ExtractMethodBody(Content(event), <<"u","p","d","a","t","e">>)
         = <<"{"," ","i","f"," ","(","$","r",")"," ","{"," ","$","t","h","i","s","-",">","u","s","e","r","S","e","r","v","i","c","e","-",">","c","r","e","a","t","e","(","$","d","a","t","a",")",";"," ","}"," ","r","e","t","u","r","n"," ","1",";"," ","}">>
    /\ response = None

---------------------------------------------------------------------------
\* forms in which the statement stands in a method `helper` that follows `method`
CSLR_OutsideForms == {"after", "leak"}

\* the mutation call shapes occur in the controller of the state, and only
\* outside the bodies of store, update and destroy, the method next to the
\* statement being laid out in one of `forms`
MutationOnlyOutside(forms) ==
    /\ shape.kind = "controller"
    /\ OrEmpty(Content(event)) = CSLR_Render(shape.method, shape.call, shape.form)
    /\ shape.form \in forms
    /\ \/ shape.method = <<"i","n","d","e","x">>
       \/ shape.call \notin CSLR_MutationCalls
       \/ shape.form \in CSLR_OutsideForms

\* C24 (as claimed): the reminder hook has no opinion on controller content in
\* which the mutation call shapes occur only outside the bodies of store,
\* update and destroy.
C24_MutationsOutsideIgnored ==
    (hook = "ControllerServiceLayerReminder" /\ Decided /\ ControllerWrite(event)
        /\ MutationOnlyOutside(DOMAIN CSLR_Forms)) =>
        response = None

\* C24 (amended): the same, provided no store, update or destroy method holds
\* an opening brace inside a string (or comment) of its body: the brace count
\* would run past the end of that method into the code that follows it.
C24_OutsideCountedBodiesIgnored ==
    (hook = "ControllerServiceLayerReminder" /\ Decided /\ ControllerWrite(event)
        /\ MutationOnlyOutside(DOMAIN CSLR_Forms)
        /\ (shape.form = "leak" => shape.method = <<"i","n","d","e","x">>)) =>
        response = None

C24_Witness ==
    /\ hook = "ControllerServiceLayerReminder" /\ pc = "done" /\ ControllerWrite(event)
    /\ scanned
    /\ MutationOnlyOutside({"plain"})
    /\ shape.method = <<"i","n","d","e","x">> /\ shape.call = "save"
    /\ response = None

---------------------------------------------------------------------------
\* the word `w` stands in s[from..to] with no word character on either side
BarewordIn(s, w, from, to) ==
    \E i \in from..(to - Len(w) + 1) :
        /\ StartsAt(s, w, i)
        /\ ~IsWordAt(s, i - 1) /\ ~IsWordAt(s, i + Len(w))

\* lang="ts" or lang='ts' stands in s[from..to]
LangTsIn(s, from, to) ==
    \E i \in from..(to - 8) :
        /\ StartsAt(s, <<"l","a","n","g","=","\"","t","s","\"">>, i) \/ StartsAt(s, <<"l","a","n","g","=","'","t","s","'">>, i)
        /\ ~IsWordAt(s, i - 1)

\* the content has a <script tag whose attributes, the text up to the first
\* `>` after it, hold both the bareword setup and lang="ts", in any letter case
OwnAttributesValid(content) ==
    LET lowered == Lower(content)
    IN  \E i \in 1..Len(lowered) :
            /\ StartsAt(lowered, <<"<","s","c","r","i","p","t">>, i)
            /\ \E close \in (i + 7)..Len(lowered) :
                  /\ lowered[close] = ">"
                  /\ \A j \in (i + 7)..(close - 1) : lowered[j] # ">"
                  /\ BarewordIn(lowered, <<"s","e","t","u","p">>, i + 7, close - 1)
                  /\ LangTsIn(lowered, i + 7, close - 1)

\* C25 (as claimed): the quick check of VueScriptValidator passes, and the
\* delegate is not asked, exactly when the content has a <script tag whose own
\* attributes hold both setup and lang="ts" (either quote, either order, any
\* letter case); text after the closing `>` of the tag never makes it pass.
C25_QuickCheckReadsOwnAttributes ==
    (hook = "VueScriptValidator" /\ pc # "start" /\ VueWrite(event) /\ shape.kind = "component") =>
        (agentCalls = 0 <=> OwnAttributesValid(Content(event)))

---------------------------------------------------------------------------
\* the response is a deny whose reason is `prefix`, a blank, and the guidance
DeniedWith(r, prefix) ==
    /\ IsDeny(r)
    /\ StartsWith(r.reason, prefix \o <<" ">>)
    /\ StartsAt(r.reason, FRB_GUIDANCE_MESSAGE, Len(prefix) + 2)

\* C26: the three Write checks of FormRequestBlocker are tried in the order
\* path, `extends FormRequest`, Illuminate import, and the first that matches
\* decides: one deny, its reason the prefix of that check followed by the
\* shared guidance; a Write that matches the path check always has a reason
\* containing "Http/Requests", whatever its content.
C26_FirstMatchingCheckDecides ==
    (hook = "FormRequestBlocker" /\ Decided /\ IsPre(event, "Write")) =>
        /\ IF UnderHttpRequests(OrEmpty(FilePath(event)))
           THEN /\ DeniedWith(response, <<"D","o"," ","n","o","t"," ","c","r","e","a","t","e"," ","f","i","l","e","s"," ","i","n"," ","H","t","t","p","/","R","e","q","u","e","s","t","s","/",".">>)
                /\ StrContains(response.reason, <<"H","t","t","p","/","R","e","q","u","e","s","t","s">>)
           ELSE IF ThenAfterSpace(OrEmpty(Content(event)), <<"e","x","t","e","n","d","s">>, <<"F","o","r","m","R","e","q","u","e","s","t">>)
           THEN DeniedWith(response, <<"D","o"," ","n","o","t"," ","e","x","t","e","n","d"," ","F","o","r","m","R","e","q","u","e","s","t",".">>)
           ELSE IF ImportsIlluminateFormRequest(OrEmpty(Content(event)))
           THEN DeniedWith(response, <<"D","o"," ","n","o","t"," ","u","s","e"," ","I","l","l","u","m","i","n","a","t","e"," ","F","o","r","m","R","e","q","u","e","s","t",".">>)
           ELSE response = None
        /\ (pc = "exited" /\ IsDeny(response)) => stdout = <<response>>

C26_Witness ==
    /\ hook = "FormRequestBlocker" /\ pc = "exited" /\ IsPre(event, "Write")
    /\ OrEmpty(FilePath(event)) = <<"a","p","p","/","H","t","t","p","/","R","e","q","u","e","s","t","s","/","U","s","e","r","/","S","t","o","r","e","U","s","e","r","R","e","q","u","e","s","t",".","p","h","p">>
    /\ OrEmpty(Content(event))
         = <<"<","?","p","h","p","\n","u","s","e"," ","I","l","l","u","m","i","n","a","t","e","\\","F","o","u","n","d","a","t","i","o","n","\\","H","t","t","p","\\","F","o","r","m","R","e","q","u","e","s","t",";","\n","c","l","a","s","s"," ","M","y","R","e","q","u","e","s","t"," ","e","x","t","e","n","d","s"," ","F","o","r","m","R","e","q","u","e","s","t"," ","{","}">>
    /\ DeniedWith(response, <<"D","o"," ","n","o","t"," ","c","r","e","a","t","e"," ","f","i","l","e","s"," ","i","n"," ","H","t","t","p","/","R","e","q","u","e","s","t","s","/",".">>)
    /\ stdout = <<response>>

---------------------------------------------------------------------------
\* where the decision tags of the text start, allow and block alike
DecisionTags(text) ==
    LET lowered == Lower(text)
    IN  {i \in 1..Len(text) :
            DecisionTagAt(lowered, <<"a","l","l","o","w">>, i) \/ DecisionTagAt(lowered, <<"b","l","o","c","k">>, i)}

\* C30: in E2EPathValidator the first decision tag of the joined text decides,
\* before any later tag and before the keyword fallback: a first tag of allow
\* allows, the word BLOCK elsewhere in the text or not, and a first tag of
\* block denies with the reason of the tags, not with the raw text.  A text
\* that is empty or nothing but whitespace is allowed.
C30_FirstTagBeforeKeywords ==
    Answered("E2EPathValidator") =>
        LET text == ResponseText(stream)
            tags == DecisionTags(text)
        IN  /\ (\A k \in 1..Len(text) : text[k] \in {" ", "\t", "\n", "\r", "\f"}) => response = None
            /\ tags # {} =>
                 IF DecisionTagAt(Lower(text), <<"a","l","l","o","w">>, Min(tags))
                 THEN response = None
                 ELSE response = Deny(ReasonOrDefault(text, E2E_DEFAULT_REASON))

C30_Witness ==
    /\ Answered("E2EPathValidator") /\ pc = "done"
    /\ Cardinality(DecisionTags(ResponseText(stream))) = 2
    /\ DecisionTagAt(Lower(ResponseText(stream)), <<"a","l","l","o","w">>, Min(DecisionTags(ResponseText(stream))))
    /\ DecisionTagAt(Lower(ResponseText(stream)), <<"b","l","o","c","k">>, Max(DecisionTags(ResponseText(stream))))
    /\ response = None

---------------------------------------------------------------------------
IsTextSegment(block) == block.type = "text"

\* the texts of the text segments of the assistant-role messages, in the
\* order of arrival, joined by newlines
AssistantText(messages) ==
    LET segments == Flatten([k \in 1..Len(messages) |->
                                IF messages[k].role = "assistant"
                                THEN SelectSeq(messages[k].content, IsTextSegment)
                                ELSE <<>>])
    IN  Join(<<"\n">>, [k \in 1..Len(segments) |-> segments[k].text])

\* the elements of a sequence
Range(s) == {s[k] : k \in 1..Len(s)}

\* one request at most, not before the stream has ended is anything decided,
\* the text is that of the assistant's text segments, and the options are
\* those of the hook
RequestDiscipline ==
    /\ agentCalls <= 1
    /\ (agentCalls = 1) <=> (request # None)
    /\ agentCalls = 1 => hook \in {"VueScriptValidator", "E2EPathValidator"}
    /\ pc \in {"query", "e2e_query"} => response = None /\ stdout = <<>> /\ agentCalls = 1
    /\ Answered("VueScriptValidator") =>
          /\ response = Vue_ParseResponse(AssistantText(stream))
          /\ request.max_turns = 1 /\ Range(request.allowed_tools) = {}
    /\ Answered("E2EPathValidator") =>
          /\ response = E2E_ValidateResult(<<AssistantMessage(<<TextBlock(AssistantText(stream))>>)>>)
          /\ request.max_turns <= 10
          /\ Range(request.allowed_tools) = {"Read", "Glob", "Grep", "Bash"}

\* C27 (as claimed): a hook that uses the delegate issues at most one request
\* per run, and only after its tool, path and content filters have passed (a
\* PreToolUse Write of a .vue file with content whose quick check fails; a
\* PreToolUse Write of an E2E test path); it consumes the whole stream before
\* it decides, builds the text from the text segments of assistant messages
\* in order, and asks with at most 10 turns and the tools Read, Glob, Grep,
\* Bash (E2EPathValidator), with 1 turn and no tools (VueScriptValidator).
C27_OneRequestAfterFilters ==
    /\ RequestDiscipline
    /\ (hook = "VueScriptValidator" /\ agentCalls = 1) =>
          VueWrite(event) /\ ~HasValidScriptSetup(Content(event))
    /\ (hook = "E2EPathValidator" /\ agentCalls = 1) => E2EWrite(event)

----------------------------------------------------------------------------
\* what the handler returns for the event, the delegate's stream and the
\* delegate's failure, computed without the logger and without the log
DecisionWithoutLog ==
    CASE hook = "ControllerStructureValidator" ->
            [raised |-> FALSE, response |-> Dispatch(event, CSV_PreToolUseResult(event), None)]
      [] hook = "FormRequestBlocker" ->
            LET result == Dispatch(event, FRB_PreToolUseResult(event), None)
            IN  IF result = Raised THEN [raised |-> TRUE, response |-> None]
                ELSE [raised |-> FALSE, response |-> result]
      [] hook = "ControllerServiceLayerReminder" ->
            [raised |-> FALSE,
             response |-> Dispatch(event, [response |-> None, scanned |-> FALSE],
                                   CSLR_PostToolUseResult(event)).response]
      [] hook = "VueScriptValidator" ->
            LET result == Dispatch(event, Vue_PreToolUseResult(event), [next |-> "done", response |-> None])
            IN  [raised |-> FALSE,
                 response |-> IF result.next = "done" THEN result.response
                              ELSE IF agentError THEN Allow
                              ELSE Vue_ParseResponse(ResponseText(stream))]
      [] hook = "E2EPathValidator" ->
            LET unhandled == [next |-> "done", response |-> None, loaded |-> FALSE]
                returned == Dispatch(event, E2E_PreToolUseResult(event, templateExists), unhandled)
                result == IF returned = None THEN unhandled ELSE returned
            IN  IF result.next = "failed" THEN [raised |-> TRUE, response |-> None]
                ELSE [raised |-> FALSE,
                      response |-> IF result.next = "done" THEN result.response
                                   ELSE IF agentError THEN None
                                   ELSE E2E_ValidateResult(stream)]

\* the lines of the log, by who appended them
LinesOf(pid) == {k \in 1..Len(log) : log[k].pid = pid}

C28_WitnessNoLogger ==
    /\ pc = "exited" /\ exitCode = 2 /\ IsDeny(response)
    /\ ~logger
    /\ Len(log) = MaxOtherLines

----------------------------------------------------------------------------
\* the positions of `text` at which the placeholder stands, character by
\* character
PlaceholderAt(text) ==
    {i \in 1..Len(text) :
        /\ i + Len(Placeholder) - 1 <= Len(text)
        /\ \A j \in 1..Len(Placeholder) : text[i + j - 1] = Placeholder[j]}

\* `prompt` is `text` with the candidate path in the place of every
\* placeholder and every other character kept, in order
Filled(text, file_path, prompt) ==
    LET at == PlaceholderAt(text)
        shift == Len(file_path) - Len(Placeholder)
        EarlierThan(i) == Cardinality({o \in at : o < i})
        Inside(i) == \E o \in at : o <= i /\ i < o + Len(Placeholder)
    IN  /\ Len(prompt) = Len(text) + Cardinality(at) * shift
        /\ \A i \in 1..Len(text) :
              ~Inside(i) => prompt[i + EarlierThan(i) * shift] = text[i]
        /\ \A o \in at : \A j \in 1..Len(file_path) :
              prompt[o + EarlierThan(o) * shift + j - 1] = file_path[j]

\* C29: prompt.md is not read before the first validation and is read at
\* most once by one object; every validation after the read works on the
\* text that was read then, whatever the file has become since; a validation
\* raises only while nothing is cached and the file is missing; and each
\* prompt is the cached text with every placeholder replaced by the candidate
\* path.
C29_TemplateReadOnceAndFilled ==
    /\ reads \in {0, 1}
    /\ prompts = <<>> => reads = 0 /\ template = None
    /\ reads = 0 <=> template = None
    /\ reads = 0 <=> \A k \in 1..Len(prompts) : prompts[k].raised
    /\ \A k \in 1..Len(prompts) :
          IF prompts[k].raised
          THEN \A j \in 1..k : prompts[j].raised
          ELSE /\ prompts[k].template = template
               /\ Filled(prompts[k].template, prompts[k].file_path, prompts[k].prompt)

\* a second validation fills both placeholders of the cached text after the
\* file was rewritten
C29_Witness ==
    /\ Len(prompts) >= 2
    /\ ~prompts[1].raised
    /\ reads = 1
    /\ template # promptFile
    /\ Cardinality(PlaceholderAt(prompts[Len(prompts)].template)) = 2
    /\ prompts[Len(prompts)].prompt = prompts[Len(prompts)].file_path \o <<" ","o","r"," ">> \o prompts[Len(prompts)].file_path

----------------------------------------------------------------------------
\* `text` is white space throughout
AllSpace(text) == \A k \in 1..Len(text) : text[k] \in SpaceChars

\* `inner` is what stands in `text` between the white space at its ends
Surrounds(text, inner) ==
    \E i \in 1..Len(text) : \E j \in i..Len(text) :
        /\ text[i] \notin SpaceChars /\ text[j] \notin SpaceChars
        /\ \A k \in 1..(i - 1) : text[k] \in SpaceChars
        /\ \A k \in (j + 1)..Len(text) : text[k] \in SpaceChars
        /\ j - i + 1 = Len(inner)
        /\ \A k \in 1..Len(inner) : text[i + k - 1] = inner[k]

\* C21: run_hook spawns at most one process, and none for a hook directory
\* that does not exist, where it raises FileNotFoundError; an exit status
\* other than 0 and 2 raises CalledProcessError with the status and both
\* captured streams; with status 0 or 2, output that is white space
\* throughout gives None, and any other output gives the value of the JSON
\* text between its surrounding white space, or JSONDecodeError when that is
\* no JSON text.
C21_RunHookMapsOutcomes ==
    /\ spawned <= 1
    /\ spawned = 0 <=> proc = None
    /\ hookName \notin Hooks =>
          /\ spawned = 0
          /\ outcome # None => outcome.kind = "raise" /\ outcome.error = "FileNotFoundError"
    /\ proc # None =>
          /\ hookName \in Hooks
          /\ outcome # None
          /\ proc.returncode \notin {0, 2} =>
                /\ outcome.kind = "raise" /\ outcome.error = "CalledProcessError"
                /\ outcome.returncode = proc.returncode
                /\ outcome.stdout = proc.stdout
                /\ outcome.stderr = proc.stderr
          /\ proc.returncode \in {0, 2} /\ AllSpace(proc.stdout) =>
                outcome.kind = "return" /\ outcome.value = None
          /\ proc.returncode \in {0, 2} /\ ~AllSpace(proc.stdout) =>
                /\ \A doc \in JsonDocs : Surrounds(proc.stdout, doc.text) =>
                      outcome.kind = "return" /\ outcome.value = doc.value
                /\ (\A doc \in JsonDocs : ~Surrounds(proc.stdout, doc.text)) =>
                      outcome.kind = "raise" /\ outcome.error = "JSONDecodeError"

\* a process that exits with 2 and prints a deny: run_hook returns the parsed
\* object
C21_Witness ==
    /\ proc # None /\ proc.returncode = 2
    /\ outcome.kind = "return"
    /\ outcome.value # None
    /\ "hookSpecificOutput" \in DOMAIN outcome.value
    /\ outcome.value["hookSpecificOutput"].permissionDecision = <<"d","e","n","y">>

\* a process that fails: the exception carries what it printed
C21_WitnessFailure ==
    /\ proc # None /\ proc.returncode = 1
    /\ outcome.kind = "raise" /\ outcome.stderr # <<>> /\ outcome.stdout # <<>>

\* the result carries the decision `decision` in hookSpecificOutput
HasDecision(res, decision) ==
    /\ res # None
    /\ "hookSpecificOutput" \in DOMAIN res
    /\ "permissionDecision" \in DOMAIN res["hookSpecificOutput"]
    /\ res["hookSpecificOutput"].permissionDecision = decision

\* no output, or no decision field in it
NoDecision(res) ==
    \/ res = None
    \/ "hookSpecificOutput" \notin DOMAIN res
    \/ "permissionDecision" \notin DOMAIN res["hookSpecificOutput"]
    \/ res["hookSpecificOutput"].permissionDecision = JsonNull

\* the reason of a result that has hookSpecificOutput, "" when it has none
ReasonIn(res) ==
    IF "permissionDecisionReason" \in DOMAIN res["hookSpecificOutput"]
    THEN res["hookSpecificOutput"].permissionDecisionReason
    ELSE <<>>

\* `part` stands somewhere in `text`, letter case aside
ContainsIgnoringCase(text, part) ==
    \E i \in 1..(Len(text) + 1) :
        /\ i + Len(part) - 1 <= Len(text)
        /\ \A j \in 1..Len(part) : LowerChar(text[i + j - 1]) = LowerChar(part[j])

\* C22: assert_allowed passes exactly for no output, an absent decision
\* field and the decision allow, so never for the decision deny;
\* assert_denied passes exactly when the result is present, its
\* hookSpecificOutput carries the decision deny and, where a substring is
\* given, the reason contains it, letter case aside.
C22_AssertionsAcceptDocumentedOutcomes ==
    verdict # None =>
        /\ verdict.helper = "assert_allowed" =>
              /\ verdict.passed <=> (NoDecision(outcome.value) \/ HasDecision(outcome.value, <<"a","l","l","o","w">>))
              /\ HasDecision(outcome.value, <<"d","e","n","y">>) => ~verdict.passed
        /\ verdict.helper = "assert_denied" =>
              (verdict.passed <=>
                  /\ HasDecision(outcome.value, <<"d","e","n","y">>)
                  /\ verdict.given => ContainsIgnoringCase(ReasonIn(outcome.value), verdict.reason_contains))

\* assert_denied passes on a reason written in another letter case
C22_Witness ==
    /\ verdict # None
    /\ verdict.helper = "assert_denied" /\ verdict.given /\ verdict.passed
    /\ verdict.reason_contains = <<"f","l","a","t"," ","c","o","n","t","r","o","l","l","e","r">>
    /\ ReasonIn(outcome.value) = <<"F","l","a","t"," ","C","O","N","T","R","O","L","L","E","R"," ","s","t","r","u","c","t","u","r","e">>

\* assert_allowed fails on a deny
C22_WitnessAllowedFails ==
    /\ verdict # None
    /\ verdict.helper = "assert_allowed" /\ ~verdict.passed
    /\ HasDecision(outcome.value, <<"d","e","n","y">>)

====
